---- MODULE Spec2Model ----
(***************************************************************************)
(* A model of the daily pipeline of ai-insight-tracker:                    *)
(*   - the tasks of scripts/daily_crawl.py (arxiv, rss, analyze) over the  *)
(*     per-date JSON files and the id trackers        (specification Spec) *)
(*   - the light-analysis fan-out under the global LLM semaphore           *)
(*                                                 (specification SpecLLM) *)
(*   - the arXiv client's request gate           (specification SpecArxiv) *)
(* Time is counted in hours.                                               *)
(***************************************************************************)
EXTENDS Integers, Sequences, FiniteSets, TLC

(***************************************************************************)
(* Bounds of the model                                                     *)
(***************************************************************************)
NumPapers == 2
NumNews == 2
MaxRuns == 3
MaxConcurrent == 1
LlmMaxRetries == 1
NumCategories == 2
MaxPages == 2
MaxResearchIterations == 1
MaxWriteIterations == 3
NumFeedPapers == 4
PageSize == 2
NotifyMaxRetries == 2
CrawlerMaxConcurrent == 2
NumSources == 3
MaxItems == 2

PaperIds == 1..NumPapers
NewsIds == 1..NumNews

\* how many items one news ingestion merges at most
MaxIncoming == NumNews

(***************************************************************************)
(* Program constants                                                       *)
(***************************************************************************)
RETENTION_DAYS == 30
NEWS_HOURS == 168
HAS_NEW_CONTENT == 0
NO_NEW_CONTENT == 1
PROCESS_ERROR == 2
ARXIV_MAX_RETRIES == 3
ARXIV_GATE == 1
ARXIV_DELAY == 3
ARXIV_429_WAIT == 30
SCRIPT_MAX_ITERATIONS == 5
DEFAULT_MAX_ITERATIONS == 5
DEFAULT_MAX_WRITE_ITERATIONS == 3
RECURSION_LIMIT == 25
EMPTY_REPORT == 0
NO_CONTENT_REPORT == -1
SCRIPT_FALLBACK_REPORT == -2
PACKAGE_FALLBACK_REPORT == -3
ARXIV_HOURS == 25
CHAR_PLUS == 43
CHAR_DOT == 46
CHAR_OPEN == 91
CHAR_CLOSE == 93
MAX_TOOL_ITERATIONS == 10

RetentionHours == RETENTION_DAYS * 24
NoTime == -1

(***************************************************************************)
(* Generic sequence helpers                                                *)
(***************************************************************************)
Range(s) == {s[k] : k \in 1..Len(s)}

IdsOf(s) == {s[k].id : k \in 1..Len(s)}

RECURSIVE SetToSeq(_)
SetToSeq(S) ==
    IF S = {} THEN <<>>
    ELSE LET m == CHOOSE x \in S : \A y \in S : x <= y
         IN <<m>> \o SetToSeq(S \ {m})

SeqsUpTo(S, n) == UNION {[1..k -> S] : k \in 0..n}

(***************************************************************************)
(* Records of the per-date files                                           *)
(***************************************************************************)
Paper(i) == [id |-> i]

NewsItem(i, pub) == [id |-> i, published |-> pub]

\* AnalyzedPaper / AnalyzedNews validated from a base item: the analysis
\* fields take their defaults.
AsPending(item, kind) ==
    IF kind = "paper"
    THEN [id |-> item.id, analysis_status |-> "pending", light_analysis |-> 0,
          analyzed_at |-> NoTime, analysis_error |-> "none"]
    ELSE [id |-> item.id, published |-> item.published,
          analysis_status |-> "pending", light_analysis |-> 0,
          analyzed_at |-> NoTime, analysis_error |-> "none"]

\* Paper(**{k: v ... if k in Paper.model_fields}): the base fields only.
BaseOf(rec, kind) ==
    IF kind = "paper" THEN Paper(rec.id) ELSE NewsItem(rec.id, rec.published)

\* save_papers_json / save_news_json write the base items; read back through
\* load_analyzed_*_json they are pending records.
SavedBase(items, kind) == [k \in 1..Len(items) |-> AsPending(items[k], kind)]

(***************************************************************************)
(* ProcessedTracker (data/processed_ids.json)                              *)
(***************************************************************************)
Cutoff(t) == t - RetentionHours

KeepEntries(m, t) == [i \in {j \in DOMAIN m : m[j] >= Cutoff(t)} |-> m[i]]

Cleanup(tr, t) == [papers |-> KeepEntries(tr.papers, t), news |-> KeepEntries(tr.news, t)]

MarkIds(m, ids, t) == [i \in DOMAIN m \cup ids |-> IF i \in DOMAIN m THEN m[i] ELSE t]

MarkPapersProcessed(tr, ids, t) == [tr EXCEPT !.papers = MarkIds(tr.papers, ids, t)]

MarkNewsProcessed(tr, ids, t) == [tr EXCEPT !.news = MarkIds(tr.news, ids, t)]

GetProcessedPaperIds(tr) == DOMAIN tr.papers

(***************************************************************************)
(* IdsTracker (data/fetched_ids.json, data/analyzed_ids.json)              *)
(***************************************************************************)
GetNewsIds(tr) == tr.news

GetPaperIds(tr) == tr.papers

(***************************************************************************)
(* NewsFetcher.fetch_all: post-merge processing                            *)
(***************************************************************************)
\* the weight a news item inherits from its source
Weight(i) == i % 2

InWindowAlways(item, t, hours) == TRUE

\* the time filter of fetch_all
InWindow(item, t, hours) == item.published >= t - hours

\* the ids of the incoming items that pass the time filter
InWindowIds(items, t, hours) == {items[k].id : k \in {j \in 1..Len(items) : InWindow(items[j], t, hours)}}

RECURSIVE DedupByUrl(_)
DedupByUrl(items) ==
    IF items = <<>> THEN <<>>
    ELSE LET front == DedupByUrl(SubSeq(items, 1, Len(items) - 1))
             x == items[Len(items)]
         IN IF x.id \in IdsOf(front) THEN front ELSE Append(front, x)

\* sorted(..., key=(weight, published), reverse=True): descending and stable
KeyGE(a, b) ==
    \/ Weight(a.id) > Weight(b.id)
    \/ Weight(a.id) = Weight(b.id) /\ a.published >= b.published

RECURSIVE SortNews(_)
SortNews(items) ==
    IF items = <<>> THEN <<>>
    ELSE LET front == SortNews(SubSeq(items, 1, Len(items) - 1))
             x == items[Len(items)]
             n == Cardinality({k \in 1..Len(front) : KeyGE(front[k], x)})
         IN SubSeq(front, 1, n) \o <<x>> \o SubSeq(front, n + 1, Len(front))

HistoryDedupNoFilter(unique, fetched) == unique

\* history dedup: drop the ids of the fetched tracker
HistoryDedup(unique, fetched) ==
    SelectSeq(unique, LAMBDA x : x.id \notin GetNewsIds(fetched))

FetchAll(all_items, fetched, t, hours) ==
    LET filtered_items == SelectSeq(all_items, LAMBDA x : InWindow(x, t, hours))
        unique_items == DedupByUrl(filtered_items)
        new_items == HistoryDedup(unique_items, fetched)
    IN SortNews(new_items)

(***************************************************************************)
(* Light analysis of one item and the analyze task's selection             *)
(***************************************************************************)
Outcomes == {"ok", "parse", "ratelimit", "other"}

\* the outcomes the pipeline-level tasks distinguish: success or failure
TaskOutcomes == {"ok", "other"}

AnalyzeOneOtherUnhandled(item, kind, outcome, token, t) ==
    LET output == AsPending(item, kind)
    IN IF outcome = "ok"
       THEN [output EXCEPT !.light_analysis = token,
                           !.analysis_status = "success",
                           !.analyzed_at = t]
       ELSE IF outcome \in {"parse", "ratelimit"}
       THEN [output EXCEPT !.analysis_status = "failed",
                           !.analysis_error = outcome]
       ELSE output

\* analyze_one: the output for an item, given how the LLM call ended
AnalyzeOne(item, kind, outcome, token, t) ==
    LET output == AsPending(item, kind)
    IN IF outcome = "ok"
       THEN [output EXCEPT !.light_analysis = token,
                           !.analysis_status = "success",
                           !.analyzed_at = t]
       ELSE [output EXCEPT !.analysis_status = "failed",
                           !.analysis_error = outcome]

DoneOfNothing(existing) == << >>

\* the items task_analyze keeps as they are
DoneOf(existing) == SelectSeq(existing, LAMBDA r : r.analysis_status = "success")

ToAnalyzeAll(existing) == existing

ToAnalyzePendingOnly(existing) ==
    SelectSeq(existing, LAMBDA r : r.analysis_status = "pending")

ToAnalyze(existing) == SelectSeq(existing, LAMBDA r : r.analysis_status # "success")

AnalyzeBatchReversed(items, kind, outcomes, token, times) ==
    [k \in 1..Len(items) |->
        AnalyzeOne(BaseOf(items[Len(items) + 1 - k], kind), kind,
                   outcomes[Len(items) + 1 - k], token, times[Len(items) + 1 - k])]

\* analyze_batch over the to-analyze list, one outcome per item; times[k] is
\* the instant at which the LLM call of item k returned
AnalyzeBatch(items, kind, outcomes, token, times) ==
    [k \in 1..Len(items) |->
        AnalyzeOne(BaseOf(items[k], kind), kind, outcomes[k], token, times[k])]

Submissions(items, kind) == [k \in 1..Len(items) |-> [kind |-> kind, id |-> items[k].id]]

\* task_analyze as a function of the two day files, the LLM outcomes and the
\* instants at which the calls returned
AnalyzeTask(pfile, nfile, po, no, token, pt, nt) ==
    LET papers_to_analyze == ToAnalyze(pfile)
        news_to_analyze == ToAnalyze(nfile)
        final_papers == DoneOf(pfile) \o AnalyzeBatch(papers_to_analyze, "paper", po, token, pt)
        final_news == DoneOf(nfile) \o AnalyzeBatch(news_to_analyze, "news", no, token, nt)
    IN IF (pfile = <<>> /\ nfile = <<>>)
          \/ (papers_to_analyze = <<>> /\ news_to_analyze = <<>>)
       THEN [papers_file |-> pfile, news_file |-> nfile, submitted |-> <<>>]
       ELSE [papers_file |-> final_papers, news_file |-> final_news,
             submitted |-> Submissions(papers_to_analyze, "paper")
                           \o Submissions(news_to_analyze, "news")]

(***************************************************************************)
(* task_arxiv and task_rss as functions of their inputs                    *)
(***************************************************************************)
ArxivEmptyStatus == NO_NEW_CONTENT

\* the status task_arxiv returns when every fetched paper is already processed
ArxivNoNewStatus == HAS_NEW_CONTENT

\* t is the instant of tracker.cleanup, before the fetch is awaited; t_save
\* the instant after it, at which the day file is written and the ids marked
ArxivTask(papers, pfile, tr, t, t_save) ==
    LET cleaned == Cleanup(tr, t)
        new_papers == SelectSeq(papers, LAMBDA p : p.id \notin GetProcessedPaperIds(cleaned))
    IN IF papers = <<>>
       THEN [status |-> ArxivEmptyStatus, papers_file |-> pfile, processed |-> cleaned]
       ELSE IF new_papers = <<>>
       THEN [status |-> ArxivNoNewStatus, papers_file |-> pfile, processed |-> cleaned]
       ELSE [status |-> HAS_NEW_CONTENT,
             papers_file |-> SavedBase(new_papers, "paper"),
             processed |-> MarkPapersProcessed(cleaned, IdsOf(new_papers), t_save)]

\* t is the instant after the feeds were awaited: fetch_all filters, the day
\* file is written and the ids are marked
RssTask(all_items, nfile, tr, fetched, t) ==
    LET news == FetchAll(all_items, fetched, t, NEWS_HOURS)
    IN IF news = <<>>
       THEN [returned |-> news, news_file |-> nfile, processed |-> tr]
       ELSE [returned |-> news,
             news_file |-> SavedBase(news, "news"),
             processed |-> MarkNewsProcessed(tr, IdsOf(news), t)]

(***************************************************************************)
(* State of the pipeline                                                   *)
(***************************************************************************)
VARIABLES
    now,            \* the wall clock, in hours
    runs,           \* how many steps (task invocations, clock advances) were taken
    papers_file,    \* data/papers/{today}.json, today being the date of now
    news_file,      \* data/news/{today}.json
    processed,      \* data/processed_ids.json: papers, news: id -> first seen
    fetched_ids,    \* data/fetched_ids.json: the ids it holds
    analyzed_ids,   \* data/analyzed_ids.json: the ids it holds
    last,           \* the latest task invocation: its inputs and results
    \* the light-analysis fan-out of one task_analyze invocation
    l_phase,        \* where task_analyze is
    l_pc,           \* per item: where its analyze_one coroutine is
    l_attempt,      \* per item: the attempt chat_structured is at (0 when not in it)
    l_out,          \* per item: how its LLM call ended
    l_sem,          \* free permits of the semaphore the analyzers hold
    l_global,       \* whether _global_llm_semaphore is set (not None)
    l_at,           \* per item: the instant analyze_one read after its call succeeded
    l_done,         \* the items whose analyze_one returned, in completion order
    \* one AsyncArxivClient instance
    a_mode,         \* fetch_recent_papers or fetch_by_ids
    a_pc,           \* per caller: where it is
    a_page,         \* per caller: page_idx of _fetch_category_paginated
    a_attempt,      \* per caller: attempt of _fetch_and_parse
    a_holds,        \* per caller: whether it holds the client's semaphore
    a_sem,          \* free permits of the client's semaphore
    a_last_set,     \* whether _last_request_time was set by a finished fetch
    a_elapsed,      \* seconds since _last_request_time, counted up to the delay
    a_since,        \* seconds since the latest request completed, NoTime if none did
    a_gap,          \* a_since as it was when the latest request started
    a_slept,        \* per caller: how long its latest sleep after a failed attempt was
    \* one invocation of scripts/daily_crawl.py
    m_task,         \* the value of --task
    m_skip,         \* whether --skip-config-check was given
    m_config,       \* what the configuration check finds
    m_pc,           \* where main is
    m_trace,        \* the tasks run so far, in order
    m_status,       \* the status the latest task_arxiv returned
    m_result,       \* what the latest task returned
    m_raised,       \* whether a task raised
    m_exit,         \* the exit code, once m_pc = "exited"
    \* one deep-analysis invocation
    d_entry,        \* who invokes it: the script, the package function, a graph caller
    d_pc,           \* where the entry point is
    d_node,         \* the graph node to run next
    d_steps,        \* the supersteps the graph has run
    d_state,        \* the DeepAnalysisState: key -> value
    d_current_paper,\* whether the global current-paper reference is set
    d_was_set,      \* whether set_current_paper was called in this invocation
    d_html,         \* whether arxiv.org/html serves the paper
    d_writer_calls, \* how often writer_node ran
    d_always_revision, \* whether every review so far called request_revision only
    d_review,          \* the reviewer's latest LLM turn, "none" before the first
    d_report,       \* the report the entry point returns
    d_md_written,   \* whether analysis/deep/{paper_id}.md was written
    d_exit,         \* the exit code, once d_pc = "exited"
    \* one fetch_recent_papers call of the arXiv client
    f_pc,           \* where fetch_recent_papers is
    f_feed,         \* per category: what the API lists, newest submission first
    f_fail,         \* per category: the page whose request exhausts its retries, 0 if none
    f_outcome,      \* per category: how _rate_limited_request ended
    f_requests,     \* per category: the start offsets requested, in order
    f_collected,    \* per category: the papers _fetch_category_paginated returned
    f_result,       \* what fetch_recent_papers returned
    \* one NewsFetcher.fetch_all call
    n_pc,           \* where fetch_all is
    n_all_items,    \* the merged items of the RSS and crawler sources
    n_fetched,      \* the fetched-ids tracker
    n_returned,     \* what fetch_all returned
    \* one cleanup() call on an id tracker
    t_pc,           \* where cleanup is
    t_now,          \* the clock reading of the call
    t_before,       \* the entries before the call: category -> id -> timestamp string
    t_data,         \* the entries (self._data)
    t_removed,      \* what cleanup returned
    t_saved,        \* whether the call rewrote the file
    t_call,         \* the mark_papers / mark_news call made: category and ids
    \* one save of a tracker file or of a per-date JSON file
    w_pc,           \* where the save is; "stopped" once the process was stopped
    w_file,         \* which file is written
    w_old,          \* the items of the file's previous content
    w_new,          \* the items to write
    w_disk,         \* the content of the file
    \* one task_notify call
    k_pc,           \* where task_notify / _send_card is
    k_report,       \* today's report file: "absent", "valid" or "invalid"
    k_configured,   \* whether a webhook url is configured
    k_attempt,      \* the attempt index of _send_card
    k_seen,         \* how the POSTs so far ended, in order
    k_logged,       \* whether a warning or an error was logged
    k_result,       \* what task_notify returned: "none" while it has not
    k_raised,       \* whether an exception left task_notify
    \* one execute_react_agent call of the researcher
    r_pc,           \* where the ReAct loop is
    r_mode,         \* which executor runs: standard or DeepSeek Reasoner
    r_turns,        \* the LLM calls made so far
    r_tool_messages, \* the ToolMessages appended so far
    r_last,         \* how the latest LLM call ended
    \* one AsyncNewsCrawler.fetch_all call
    c_src,          \* per source: where its _fetch_source task is
    c_waiting,      \* per source: its _fetch_one tasks waiting for the detail semaphore
    c_loading,      \* per source: its _fetch_one tasks loading a detail page
    c_fetched,      \* per source: its _fetch_one tasks that are over
    c_sem,          \* free permits of self._semaphore
    c_detail_sem,   \* free permits of self._detail_semaphore
    \* the store phase of one task_arxiv or task_rss call
    s_task,         \* which task runs
    s_pc,           \* running, returned, or stopped with the process
    s_new,          \* the ids of the new items, in order
    s_before,       \* the ids processed_ids.json held when the task started
    s_day,          \* the ids of the items written to the day file so far
    s_day_stage,    \* the day file: not opened yet, open for writing, closed
    s_tracker,      \* the ids the latest complete processed_ids.json holds
    s_tracker_stage \* processed_ids.json: as before, open for writing, closed

pvars == <<now, runs, papers_file, news_file, processed, fetched_ids,
           analyzed_ids, last>>

lvars == <<l_phase, l_pc, l_attempt, l_out, l_sem, l_global, l_at, l_done>>

avars == <<a_mode, a_pc, a_page, a_attempt, a_holds, a_sem, a_last_set,
           a_elapsed, a_since, a_gap, a_slept>>

mvars == <<m_task, m_skip, m_config, m_pc, m_trace, m_status, m_result, m_raised, m_exit>>

dvars == <<d_entry, d_pc, d_node, d_steps, d_state, d_current_paper, d_was_set, d_html,
           d_writer_calls, d_always_revision, d_review, d_report, d_md_written, d_exit>>

fvars == <<f_pc, f_feed, f_fail, f_outcome, f_requests, f_collected, f_result>>

nvars == <<n_pc, n_all_items, n_fetched, n_returned>>

tvars == <<t_pc, t_now, t_before, t_data, t_removed, t_saved, t_call>>

wvars == <<w_pc, w_file, w_old, w_new, w_disk>>

kvars == <<k_pc, k_report, k_configured, k_attempt, k_seen, k_logged, k_result, k_raised>>

rvars == <<r_pc, r_mode, r_turns, r_tool_messages, r_last>>

cvars == <<c_src, c_waiting, c_loading, c_fetched, c_sem, c_detail_sem>>

svars == <<s_task, s_pc, s_new, s_before, s_day, s_day_stage, s_tracker, s_tracker_stage>>

vars == <<pvars, lvars, avars, mvars, dvars, fvars, nvars, tvars, wvars, kvars, rvars, cvars, svars>>

EmptyMap == [i \in {} |-> 0]

\* task: the task that ran; status: what task_arxiv returned; feed: the
\* papers the arXiv client returned; incoming: the ids of the in-window items
\* the news sources delivered; returned: what fetch_all returned; submitted:
\* the items handed to the LLM; prev_task, prev_feed: the invocation before
Event(task, status, feed, incoming, returned, submitted) ==
    [task |-> task, status |-> status, feed |-> feed, incoming |-> incoming,
     returned |-> returned, submitted |-> submitted,
     prev_task |-> last.task, prev_feed |-> last.feed]

NoEvent ==
    [task |-> "none", status |-> 0, feed |-> <<>>, incoming |-> {},
     returned |-> <<>>, submitted |-> <<>>, prev_task |-> "none", prev_feed |-> <<>>]

\* The tracker files fetched_ids.json and analyzed_ids.json are read by the
\* pipeline and written by none of its tasks: they hold what the data
\* directory held when the pipeline started.
PInit ==
    /\ now = 0
    /\ runs = 0
    /\ papers_file = <<>>
    /\ news_file = <<>>
    /\ processed = [papers |-> EmptyMap, news |-> EmptyMap]
    /\ fetched_ids \in {[papers |-> {}, news |-> S] : S \in {{}, {1}}}
    /\ analyzed_ids \in {[papers |-> S, news |-> {}] : S \in {{}, {1}}}
    /\ last = NoEvent

\* get_today_date: the date of an instant, as a day number
TodayDate(t) == t \div 24

\* data/papers/{today}.json or data/news/{today}.json as the tasks see it at
\* instant t2, given what it held at t1: the file of a new date does not exist
DayFile(file, t1, t2) == IF TodayDate(t2) = TodayDate(t1) THEN file ELSE <<>>

\* the hours that pass while a task awaits the network or the LLM
Elapsed == {0, 1}

\* the clock advances by an hour, by the retention period, or by just more
Tick ==
    /\ runs < MaxRuns
    /\ \E d \in {1, RetentionHours, RetentionHours + 1} :
         /\ now' = now + d
         /\ papers_file' = DayFile(papers_file, now, now + d)
         /\ news_file' = DayFile(news_file, now, now + d)
    /\ runs' = runs + 1
    /\ last' = NoEvent
    /\ UNCHANGED <<processed, fetched_ids, analyzed_ids, lvars, avars, mvars, dvars, fvars, nvars, tvars, wvars, kvars, rvars, cvars, svars>>

\* what AsyncArxivClient.fetch_recent_papers returns: papers with distinct ids
ArxivFeeds == {[k \in 1..Cardinality(S) |-> Paper(SetToSeq(S)[k])] : S \in SUBSET PaperIds}

\* task_arxiv: cleanup at now, the fetch takes d hours, save and mark after it
TaskArxiv ==
    /\ runs < MaxRuns
    /\ \E papers \in ArxivFeeds, d \in Elapsed :
         LET r == ArxivTask(papers, DayFile(papers_file, now, now + d), processed,
                            now, now + d)
         IN /\ papers_file' = r.papers_file
            /\ news_file' = DayFile(news_file, now, now + d)
            /\ processed' = r.processed
            /\ now' = now + d
            /\ last' = Event("arxiv", r.status, papers, {}, <<>>, <<>>)
    /\ runs' = runs + 1
    /\ UNCHANGED <<fetched_ids, analyzed_ids, lvars, avars, mvars, dvars, fvars, nvars, tvars, wvars, kvars, rvars, cvars, svars>>

\* the merged feed and crawler items: published at the edge of the window
\* or just outside it; the same url may come twice
NewsAges == {NEWS_HOURS, NEWS_HOURS + 1}

NewsInputs == SeqsUpTo({NewsItem(i, now - a) : i \in NewsIds, a \in NewsAges}, MaxIncoming)

\* task_rss: the feeds take d hours, then fetch_all filters, and the task
\* saves and marks
TaskRss ==
    /\ runs < MaxRuns
    /\ \E all_items \in NewsInputs, d \in Elapsed :
         LET r == RssTask(all_items, DayFile(news_file, now, now + d), processed,
                          fetched_ids, now + d)
         IN /\ news_file' = r.news_file
            /\ papers_file' = DayFile(papers_file, now, now + d)
            /\ processed' = r.processed
            /\ now' = now + d
            /\ last' = Event("rss", 0, <<>>, InWindowIds(all_items, now + d, NEWS_HOURS),
                             r.returned, <<>>)
    /\ runs' = runs + 1
    /\ UNCHANGED <<fetched_ids, analyzed_ids, lvars, avars, mvars, dvars, fvars, nvars, tvars, wvars, kvars, rvars, cvars, svars>>

\* the instants at which the n calls of a batch may return, between two
\* instants
ReturnTimes(n, from, to) == [1..n -> from..to]

\* the paper batch is awaited to its end before the news batch starts
BatchesInOrder(pt, nt) ==
    \A i \in 1..Len(pt) : \A j \in 1..Len(nt) : pt[i] <= nt[j]

\* task_analyze: the day files are read at now, the LLM calls return over d
\* hours, and the files read are written back, under the names they were
\* read by
TaskAnalyze ==
    /\ runs < MaxRuns
    /\ \E po \in [1..Len(ToAnalyze(papers_file)) -> TaskOutcomes],
          no \in [1..Len(ToAnalyze(news_file)) -> TaskOutcomes],
          d \in Elapsed :
         \E pt \in ReturnTimes(Len(ToAnalyze(papers_file)), now, now + d),
            nt \in ReturnTimes(Len(ToAnalyze(news_file)), now, now + d) :
           LET r == AnalyzeTask(papers_file, news_file, po, no, runs + 1, pt, nt)
           IN /\ BatchesInOrder(pt, nt)
              /\ papers_file' = DayFile(r.papers_file, now, now + d)
              /\ news_file' = DayFile(r.news_file, now, now + d)
              /\ now' = now + d
              /\ last' = Event("analyze", 0, <<>>, {}, <<>>, r.submitted)
    /\ runs' = runs + 1
    /\ UNCHANGED <<processed, fetched_ids, analyzed_ids, lvars, avars, mvars, dvars, fvars, nvars, tvars, wvars, kvars, rvars, cvars, svars>>

PNext == Tick \/ TaskArxiv \/ TaskRss \/ TaskAnalyze

(***************************************************************************)
(* The light-analysis fan-out: task_analyze step by step                   *)
(***************************************************************************)
LItems == ({"paper"} \X PaperIds) \cup ({"news"} \X NewsIds)

FileOf(kind) == IF kind = "paper" THEN papers_file ELSE news_file

\* the items of a batch: those of the day file that are not success
BatchItems(kind) == {<<kind, r.id>> : r \in Range(ToAnalyze(FileOf(kind)))}

LIdle ==
    /\ l_phase = "off"
    /\ l_pc = [it \in LItems |-> "idle"]
    /\ l_attempt = [it \in LItems |-> 0]
    /\ l_out = [it \in LItems |-> "none"]
    /\ l_sem = MaxConcurrent
    /\ l_global = FALSE
    /\ l_at = [it \in LItems |-> NoTime]
    /\ l_done = <<>>

\* a day with every id fetched; each file is either all pending or all success
LFiles(kind, ids) ==
    {[k \in 1..Cardinality(ids) |->
        AnalyzeOne(IF kind = "paper" THEN Paper(k) ELSE NewsItem(k, 0), kind, o, 1, 0)]
     : o \in {"ok", "other"}}

LInit ==
    /\ now = 0
    /\ runs = 1
    /\ papers_file \in LFiles("paper", PaperIds)
    /\ news_file \in LFiles("news", NewsIds)
    /\ processed = [papers |-> EmptyMap, news |-> EmptyMap]
    /\ fetched_ids = [papers |-> {}, news |-> {}]
    /\ analyzed_ids = [papers |-> {}, news |-> {}]
    /\ last = NoEvent
    /\ l_phase = "start"
    /\ l_pc = [it \in LItems |-> "idle"]
    /\ l_attempt = [it \in LItems |-> 0]
    /\ l_out = [it \in LItems |-> "none"]
    /\ l_sem = MaxConcurrent
    /\ l_global = FALSE
    /\ l_at = [it \in LItems |-> NoTime]
    /\ l_done = <<>>

StartBatch(kind) == [it \in LItems |-> IF it \in BatchItems(kind) THEN "acquire" ELSE l_pc[it]]

\* get_llm_semaphore, called by the constructor of an analyzer: the permits
\* of the semaphore the analyzer stores, which is the global one if it is set
\* and a new one of analysis.max_concurrent permits otherwise
GetLlmSemaphore(global, sem) == IF global THEN sem ELSE MaxConcurrent

\* an analyzer is constructed and its batch starts
NewAnalyzer(kind) ==
    /\ l_pc' = StartBatch(kind)
    /\ l_sem' = GetLlmSemaphore(l_global, l_sem)
    /\ l_global' = TRUE

\* task_analyze up to the first analyze_batch: load, split, early returns
LBegin ==
    /\ l_phase = "start"
    /\ IF (papers_file = <<>> /\ news_file = <<>>)
          \/ (ToAnalyze(papers_file) = <<>> /\ ToAnalyze(news_file) = <<>>)
       THEN l_phase' = "returned" /\ UNCHANGED <<l_pc, l_sem, l_global>>
       ELSE IF ToAnalyze(papers_file) # <<>>
       THEN l_phase' = "papers" /\ NewAnalyzer("paper")
       ELSE l_phase' = "news" /\ NewAnalyzer("news")
    /\ UNCHANGED <<l_attempt, l_out, l_at, l_done, pvars, avars, mvars, dvars, fvars, nvars, tvars, wvars, kvars, rvars, cvars, svars>>

LlmSemaphoreFreeUnchecked(sem) == TRUE

\* asyncio.Semaphore: acquire goes through while a permit is free
LlmSemaphoreFree(sem) == sem > 0

\* analyze_one enters the semaphore and sends the first LLM request
LAcquire(it) ==
    /\ l_pc[it] = "acquire"
    /\ LlmSemaphoreFree(l_sem)
    /\ l_sem' = l_sem - 1
    /\ l_pc' = [l_pc EXCEPT ![it] = "calling"]
    /\ l_attempt' = [l_attempt EXCEPT ![it] = 0]
    /\ UNCHANGED <<l_phase, l_out, l_global, l_at, l_done, pvars, avars, mvars, dvars, fvars, nvars, tvars, wvars, kvars, rvars, cvars, svars>>

\* the LLM request of chat_structured returns: a parse failure is retried
\* while attempts are left; anything else ends analyze_one, which leaves the
\* semaphore and records the outcome
LReturn(it) ==
    /\ l_pc[it] = "calling"
    /\ \E o \in Outcomes :
         IF o = "parse" /\ l_attempt[it] < LlmMaxRetries
         THEN /\ l_pc' = [l_pc EXCEPT ![it] = "retry_sleep"]
              /\ UNCHANGED <<l_out, l_sem, l_attempt, l_at, l_done>>
         ELSE /\ l_pc' = [l_pc EXCEPT ![it] = "done"]
              /\ l_out' = [l_out EXCEPT ![it] = o]
              /\ l_attempt' = [l_attempt EXCEPT ![it] = 0]
              /\ l_sem' = l_sem + 1
              /\ l_at' = IF o = "ok" THEN [l_at EXCEPT ![it] = now] ELSE l_at
              /\ l_done' = Append(l_done, it)
    /\ UNCHANGED <<l_phase, l_global, pvars, avars, mvars, dvars, fvars, nvars, tvars, wvars, kvars, rvars, cvars, svars>>

\* after the 0.5 s sleep chat_structured sends the next request
LRetry(it) ==
    /\ l_pc[it] = "retry_sleep"
    /\ l_pc' = [l_pc EXCEPT ![it] = "calling"]
    /\ l_attempt' = [l_attempt EXCEPT ![it] = l_attempt[it] + 1]
    /\ UNCHANGED <<l_phase, l_out, l_sem, l_global, l_at, l_done, pvars, avars, mvars, dvars, fvars, nvars, tvars, wvars, kvars, rvars, cvars, svars>>

BatchDone(kind) == \A it \in BatchItems(kind) : l_pc[it] = "done"

\* gather of the paper batch returned: the news analyzer is constructed and
\* its batch starts, if there is one
LPapersDone ==
    /\ l_phase = "papers"
    /\ BatchDone("paper")
    /\ IF ToAnalyze(news_file) # <<>>
       THEN l_phase' = "news" /\ NewAnalyzer("news")
       ELSE l_phase' = "save" /\ UNCHANGED <<l_pc, l_sem, l_global>>
    /\ UNCHANGED <<l_attempt, l_out, l_at, l_done, pvars, avars, mvars, dvars, fvars, nvars, tvars, wvars, kvars, rvars, cvars, svars>>

LNewsDone ==
    /\ l_phase = "news"
    /\ BatchDone("news")
    /\ l_phase' = "save"
    /\ UNCHANGED <<l_pc, l_attempt, l_out, l_sem, l_global, l_at, l_done, pvars, avars, mvars, dvars, fvars, nvars, tvars, wvars, kvars, rvars, cvars, svars>>

OutcomesOf(kind) ==
    LET items == ToAnalyze(FileOf(kind))
    IN [k \in 1..Len(items) |-> l_out[<<kind, items[k].id>>]]

\* the instants the successful calls of a batch were stamped with, in input
\* order
TimesOf(kind) ==
    LET items == ToAnalyze(FileOf(kind))
    IN [k \in 1..Len(items) |-> l_at[<<kind, items[k].id>>]]

\* final_news: the done records of the news file and the newly analyzed ones
FinalNews ==
    DoneOf(news_file)
        \o AnalyzeBatch(ToAnalyze(news_file), "news", OutcomesOf("news"), runs + 1,
                        TimesOf("news"))

\* merge done + newly analyzed and overwrite the papers day file
LSavePapers ==
    /\ l_phase = "save"
    /\ LET r == AnalyzeTask(papers_file, news_file, OutcomesOf("paper"),
                            OutcomesOf("news"), runs + 1, TimesOf("paper"), TimesOf("news"))
       IN /\ papers_file' = r.papers_file
          /\ last' = Event("analyze", 0, <<>>, {}, <<>>, r.submitted)
    /\ l_phase' = "save_news"
    /\ UNCHANGED <<now, runs, news_file, processed, fetched_ids, analyzed_ids,
                   l_pc, l_attempt, l_out, l_sem, l_global, l_at, l_done, avars, mvars, dvars, fvars, nvars, tvars, wvars, kvars, rvars, cvars, svars>>

\* overwrite the news day file
LSaveNews ==
    /\ l_phase = "save_news"
    /\ news_file' = FinalNews
    /\ l_phase' = "saved"
    /\ UNCHANGED <<now, runs, papers_file, processed, fetched_ids, analyzed_ids, last,
                   l_pc, l_attempt, l_out, l_sem, l_global, l_at, l_done, avars, mvars, dvars, fvars, nvars, tvars, wvars, kvars, rvars, cvars, svars>>

\* the final statistics are logged and task_analyze returns
LFinish ==
    /\ l_phase = "saved"
    /\ l_phase' = "returned"
    /\ runs' = runs + 1
    /\ UNCHANGED <<now, papers_file, news_file, processed, fetched_ids, analyzed_ids, last,
                   l_pc, l_attempt, l_out, l_sem, l_global, l_at, l_done, avars, mvars, dvars, fvars, nvars, tvars, wvars, kvars, rvars, cvars, svars>>

\* the process is stopped while the analyzers run, before the save or
\* between its writes
LKill ==
    /\ l_phase \in {"papers", "news", "save", "save_news", "saved"}
    /\ l_phase' = "killed"
    /\ UNCHANGED <<l_pc, l_attempt, l_out, l_sem, l_global, l_at, l_done, pvars, avars, mvars, dvars, fvars, nvars, tvars, wvars, kvars, rvars, cvars, svars>>

\* reset_llm_semaphore, the test helper of src.agents: the global semaphore
\* is forgotten; the analyzers made before keep the one they stored
LReset ==
    /\ l_phase \in {"start", "papers", "news", "save", "save_news", "saved"}
    /\ l_global' = FALSE
    /\ UNCHANGED <<l_phase, l_pc, l_attempt, l_out, l_sem, l_at, l_done, pvars, avars, mvars, dvars, fvars, nvars, tvars, wvars, kvars, rvars, cvars, svars>>

\* the clock advances while the LLM calls are awaited
LTick ==
    /\ l_phase \in {"papers", "news"}
    /\ now + 1 \in Elapsed
    /\ now' = now + 1
    /\ UNCHANGED <<runs, papers_file, news_file, processed, fetched_ids, analyzed_ids, last,
                   lvars, avars, mvars, dvars, fvars, nvars, tvars, wvars, kvars, rvars, cvars, svars>>

LNext ==
    \/ LBegin
    \/ \E it \in LItems : LAcquire(it)
    \/ \E it \in LItems : LReturn(it)
    \/ \E it \in LItems : LRetry(it)
    \/ LPapersDone
    \/ LNewsDone
    \/ LSavePapers
    \/ LSaveNews
    \/ LFinish
    \/ LKill
    \/ LReset
    \/ LTick

(***************************************************************************)
(* AsyncArxivClient: the request gate                                      *)
(***************************************************************************)
Callers == 1..NumCategories

AIdle ==
    /\ a_mode = "off"
    /\ a_pc = [c \in Callers |-> "unused"]
    /\ a_page = [c \in Callers |-> 0]
    /\ a_attempt = [c \in Callers |-> 0]
    /\ a_holds = [c \in Callers |-> FALSE]
    /\ a_sem = ARXIV_GATE
    /\ a_last_set = FALSE
    /\ a_elapsed = ARXIV_DELAY
    /\ a_since = NoTime
    /\ a_gap = NoTime
    /\ a_slept = [c \in Callers |-> NoTime]

\* a fresh client runs fetch_recent_papers over the categories, or
\* fetch_by_ids (one caller, not through _rate_limited_request)
AInit ==
    /\ a_mode \in {"recent", "by_ids"}
    /\ a_pc = [c \in Callers |->
                 IF a_mode = "recent" THEN "acquire"
                 ELSE IF c = 1 THEN "send" ELSE "unused"]
    /\ a_page = [c \in Callers |-> 0]
    /\ a_attempt = [c \in Callers |-> 0]
    /\ a_holds = [c \in Callers |-> FALSE]
    /\ a_sem = ARXIV_GATE
    /\ a_last_set = FALSE
    /\ a_elapsed = ARXIV_DELAY
    /\ a_since = NoTime
    /\ a_gap = NoTime
    /\ a_slept = [c \in Callers |-> NoTime]

GateFreeUnchecked(sem) == TRUE

\* asyncio.Semaphore(1): acquire goes through while the permit is free
GateFree(sem) == sem > 0

\* the client's clock readings matter up to delay_between_requests only
Sat(x) == IF x > ARXIV_DELAY THEN ARXIV_DELAY ELSE x

\* d seconds later
Later(x, d) == IF x = NoTime THEN NoTime ELSE Sat(x + d)

\* how long the event loop took to resume a coroutine waiting at the gate
IdleTimes == {0, ARXIV_DELAY}

\* how long a request takes
RequestTimes == {0, 1}

\* _rate_limited_request enters the semaphore; it sleeps first if the last
\* fetch finished less than delay_between_requests ago
AAcquire(c) ==
    /\ a_pc[c] = "acquire"
    /\ GateFree(a_sem)
    /\ a_sem' = a_sem - 1
    /\ a_holds' = [a_holds EXCEPT ![c] = TRUE]
    /\ \E idle \in IdleTimes :
         /\ a_elapsed' = Later(a_elapsed, idle)
         /\ a_since' = Later(a_since, idle)
         /\ a_pc' = [a_pc EXCEPT ![c] = IF Later(a_elapsed, idle) < ARXIV_DELAY
                                        THEN "delay" ELSE "send"]
    /\ UNCHANGED <<a_mode, a_slept, a_page, a_attempt, a_last_set, a_gap, pvars, lvars, mvars, dvars, fvars, nvars, tvars, wvars, kvars, rvars, cvars, svars>>

\* asyncio.sleep(self._delay - elapsed) is over
ADelayOver(c) ==
    /\ a_pc[c] = "delay"
    /\ a_pc' = [a_pc EXCEPT ![c] = "send"]
    /\ a_elapsed' = Later(a_elapsed, ARXIV_DELAY - a_elapsed)
    /\ a_since' = Later(a_since, ARXIV_DELAY - a_elapsed)
    /\ UNCHANGED <<a_mode, a_slept, a_page, a_attempt, a_holds, a_sem, a_last_set, a_gap,
                   pvars, lvars, mvars, dvars, fvars, nvars, tvars, wvars, kvars, rvars, cvars, svars>>

\* _fetch_and_parse sends the GET of the current page
ASend(c) ==
    /\ a_pc[c] = "send"
    /\ a_pc' = [a_pc EXCEPT ![c] = "request"]
    /\ a_gap' = a_since
    /\ UNCHANGED <<a_mode, a_slept, a_page, a_attempt, a_holds, a_sem, a_last_set,
                   a_elapsed, a_since, pvars, lvars, mvars, dvars, fvars, nvars, tvars, wvars, kvars, rvars, cvars, svars>>

Release(c) == IF a_holds[c] THEN a_sem + 1 ELSE a_sem

\* the fetch of caller c is over: _last_request_time is set on a normal
\* return of _rate_limited_request only; the semaphore is left either way
AFinish(c, how) ==
    /\ a_pc' = [a_pc EXCEPT ![c] = how]
    /\ a_sem' = Release(c)
    /\ a_holds' = [a_holds EXCEPT ![c] = FALSE]
    /\ a_last_set' = (a_last_set \/ (how = "done" /\ a_holds[c]))

Responses == {"full_page", "last_page", "429", "5xx", "timeout", "client_error",
              "other_error"}

\* the response arrives: a full page inside the window asks for the next
\* page unless max_pages is reached; a short, empty or old page ends the
\* category; a 429, a 5xx, a timeout or a client error is followed by a
\* sleep; any other exception leaves the fetch at once
AResponse(c) ==
    /\ a_pc[c] = "request"
    /\ \E resp \in Responses, dur \in RequestTimes :
         /\ a_since' = 0
         /\ CASE resp = "full_page" /\ a_mode = "recent" /\ a_page[c] + 1 < MaxPages ->
                /\ a_pc' = [a_pc EXCEPT ![c] = "send"]
                /\ a_page' = [a_page EXCEPT ![c] = a_page[c] + 1]
                /\ a_attempt' = [a_attempt EXCEPT ![c] = 0]
                /\ a_elapsed' = Later(a_elapsed, dur)
                /\ UNCHANGED <<a_holds, a_sem, a_last_set>>
           [] resp \in {"full_page", "last_page"}
              /\ ~(resp = "full_page" /\ a_mode = "recent" /\ a_page[c] + 1 < MaxPages) ->
                /\ AFinish(c, "done")
                /\ a_elapsed' = IF a_holds[c] THEN 0 ELSE Later(a_elapsed, dur)
                /\ UNCHANGED <<a_page, a_attempt>>
           [] resp = "other_error" ->
                /\ AFinish(c, "raised")
                /\ a_elapsed' = Later(a_elapsed, dur)
                /\ UNCHANGED <<a_page, a_attempt>>
           [] OTHER ->
                /\ a_pc' = [a_pc EXCEPT ![c] = IF resp = "429" THEN "backoff_429"
                                                               ELSE "backoff"]
                /\ a_elapsed' = Later(a_elapsed, dur)
                /\ UNCHANGED <<a_page, a_attempt, a_holds, a_sem, a_last_set>>
    /\ UNCHANGED <<a_mode, a_slept, a_gap, pvars, lvars, mvars, dvars, fvars, nvars, tvars, wvars, kvars, rvars, cvars, svars>>

BackoffWaitExponentialOnly(c) == 2 ^ a_attempt[c]

\* the sleep of _fetch_and_parse after a failed attempt: 30 s after a 429,
\* 2**attempt s after a 5xx, a timeout or a client error
BackoffWait(c) == IF a_pc[c] = "backoff_429" THEN ARXIV_429_WAIT ELSE 2 ^ a_attempt[c]

\* the sleep after a failed attempt ends: the next attempt, or the raise
\* once max_retries attempts were made
ABackoffOver(c) ==
    /\ a_pc[c] \in {"backoff", "backoff_429"}
    /\ a_elapsed' = Later(a_elapsed, BackoffWait(c))
    /\ a_since' = Later(a_since, BackoffWait(c))
    /\ IF a_attempt[c] + 1 < ARXIV_MAX_RETRIES
       THEN /\ a_pc' = [a_pc EXCEPT ![c] = "request"]
            /\ a_attempt' = [a_attempt EXCEPT ![c] = a_attempt[c] + 1]
            /\ a_gap' = Later(a_since, BackoffWait(c))
            /\ UNCHANGED <<a_holds, a_sem, a_last_set>>
       ELSE /\ AFinish(c, "raised")
            /\ UNCHANGED <<a_attempt, a_gap>>
    /\ a_slept' = [a_slept EXCEPT ![c] = BackoffWait(c)]
    /\ UNCHANGED <<a_mode, a_page, pvars, lvars, mvars, dvars, fvars, nvars, tvars, wvars, kvars, rvars, cvars, svars>>

ANext ==
    \/ \E c \in Callers : AAcquire(c)
    \/ \E c \in Callers : ADelayOver(c)
    \/ \E c \in Callers : ASend(c)
    \/ \E c \in Callers : AResponse(c)
    \/ \E c \in Callers : ABackoffOver(c)

(***************************************************************************)
(* scripts/daily_crawl.py: main and run_all                                *)
(***************************************************************************)
TaskChoices == {"arxiv", "rss", "analyze", "summary", "notify", "update-file-list", "all"}

\* the order of run_all
AllOrder == <<"arxiv", "rss", "analyze", "summary", "update-file-list", "notify">>

MIdle ==
    /\ m_task = "none"
    /\ m_skip = FALSE
    /\ m_config = "ok"
    /\ m_pc = "off"
    /\ m_trace = <<>>
    /\ m_status = HAS_NEW_CONTENT
    /\ m_result = "none"
    /\ m_raised = FALSE
    /\ m_exit = 0

MInit ==
    /\ m_task \in TaskChoices
    /\ m_skip \in BOOLEAN
    /\ m_config \in {"ok", "first_run", "invalid"}
    /\ m_pc = "start"
    /\ m_trace = <<>>
    /\ m_status = HAS_NEW_CONTENT
    /\ m_result = "none"
    /\ m_raised = FALSE
    /\ m_exit = 0

MExit(code) == m_pc' = "exited" /\ m_exit' = code

\* the configuration check of main, then the dispatch on --task
MCheckConfig ==
    /\ m_pc = "start"
    /\ IF ~m_skip /\ m_config # "ok"
       THEN MExit(1)
       ELSE /\ m_pc' = (IF m_task = "all" THEN AllOrder[1] ELSE m_task)
            /\ UNCHANGED m_exit
    /\ UNCHANGED <<m_task, m_skip, m_config, m_trace, m_status, m_result, m_raised,
                   pvars, lvars, avars, dvars, fvars, nvars, tvars, wvars, kvars, rvars, cvars, svars>>

\* what a task returns to its caller; "raised" when it raises
TaskResults(task) ==
    CASE task = "summary" -> {"path", "none", "raised"}
      [] task = "notify" -> {"sent", "not_sent", "raised"}
      [] OTHER -> {"ok", "raised"}

\* the statuses task_arxiv returns
ArxivStatuses == {ArxivEmptyStatus, ArxivNoNewStatus, HAS_NEW_CONTENT}

RunAllAfterArxivAbortOnNoNew(status) ==
    IF status \in {PROCESS_ERROR, NO_NEW_CONTENT} THEN "exit" ELSE "rss"

\* run_all after task_arxiv: only PROCESS_ERROR ends the run
RunAllAfterArxiv(status) == IF status = PROCESS_ERROR THEN "exit" ELSE "rss"

\* run_all: what follows a task that returned
RunAllNext(task, status) ==
    CASE task = "arxiv" -> RunAllAfterArxiv(status)
      [] task = "rss" -> "analyze"
      [] task = "analyze" -> "summary"
      [] task = "summary" -> "update-file-list"
      [] task = "update-file-list" -> "notify"
      [] task = "notify" -> "exit"

\* run_all's return value once it stops after the task
RunAllExit(task, status) == IF task = "arxiv" /\ status = PROCESS_ERROR THEN 3 ELSE 0

SingleTaskExitAlwaysZero(task, status, result) == 0

\* main's return value in single-task mode
SingleTaskExit(task, status, result) ==
    CASE task = "arxiv" -> (IF status = PROCESS_ERROR THEN 3 ELSE 0)
      [] task = "summary" -> (IF result = "path" THEN 0 ELSE 3)
      [] task = "notify" -> (IF result = "sent" THEN 0 ELSE 3)
      [] OTHER -> 0

\* one task runs; an exception it raises reaches the except of main
MRunTask(task) ==
    /\ m_pc = task
    /\ m_trace' = Append(m_trace, task)
    /\ \E result \in TaskResults(task), status \in ArxivStatuses :
         /\ m_result' = result
         /\ m_status' = (IF task = "arxiv" /\ result # "raised" THEN status ELSE m_status)
         /\ m_raised' = (result = "raised")
         /\ IF result = "raised"
            THEN MExit(3)
            ELSE IF m_task = "all"
            THEN IF RunAllNext(task, m_status') = "exit"
                 THEN MExit(RunAllExit(task, m_status'))
                 ELSE m_pc' = RunAllNext(task, m_status') /\ UNCHANGED m_exit
            ELSE MExit(SingleTaskExit(task, m_status', result))
    /\ UNCHANGED <<m_task, m_skip, m_config, pvars, lvars, avars, dvars, fvars, nvars, tvars, wvars, kvars, rvars, cvars, svars>>

MNext ==
    \/ MCheckConfig
    \/ \E task \in Range(AllOrder) : MRunTask(task)

(***************************************************************************)
(* Deep analysis: the workflow graph and its entry points                  *)
(***************************************************************************)
\* state.get(key, default) on the DeepAnalysisState
Get(st, key, default) == IF key \in DOMAIN st THEN st[key] ELSE default

\* the state after a node returned the partial update upd
Update(st, upd) == upd @@ st

\* None, "" and an empty list are falsy
Falsy(v) == v \in {"none", "empty"}

\* the state scripts/deep_analysis.py hands to the graph: of the keys it
\* writes only these are keys of DeepAnalysisState
ScriptInitialState ==
    [research_notes |-> 0, final_report |-> EMPTY_REPORT, research_iterations |-> 0,
     max_iterations |-> SCRIPT_MAX_ITERATIONS]

\* create_initial_state(max_iterations, max_write_iterations)
CreateInitialState(max_iterations, max_write_iterations) ==
    [supervisor_messages |-> "none", research_notes |-> 0,
     current_research_topic |-> "none", draft_report |-> EMPTY_REPORT,
     review_feedback |-> "none", final_report |-> EMPTY_REPORT,
     research_iterations |-> 0, max_iterations |-> max_iterations,
     write_iterations |-> 0, max_write_iterations |-> max_write_iterations,
     next_action |-> "none"]

\* the parameters of create_initial_state, and those without a default
CreateInitialStateParams ==
    {"paper_id", "paper_title", "paper_abstract", "paper_html_url", "requirements",
     "max_iterations", "max_write_iterations", "paper_full_content",
     "paper_tables_content", "paper_figures_content", "paper_sections_available",
     "paper_total_sections", "paper_references_count", "fulltext_parse_status"}

CreateInitialStateRequired ==
    {"paper_id", "paper_title", "paper_abstract", "paper_html_url"}

\* the keywords run_deep_analysis of the package passes to create_initial_state
PackageCallKeywords ==
    {"paper_id", "paper_title", "paper_abstract", "paper_pdf_url", "requirements",
     "max_iterations", "max_write_iterations", "paper_full_content",
     "paper_tables_content", "paper_figures_content", "paper_sections_available",
     "paper_total_pages", "paper_references_count", "pdf_parse_status"}

\* a call with keywords binds iff each names a parameter and no required
\* parameter is left out; otherwise it raises TypeError
CallAccepted(keywords) ==
    /\ keywords \subseteq CreateInitialStateParams
    /\ CreateInitialStateRequired \subseteq keywords

GraphNodes == {"supervisor", "supervisor_tools", "researcher", "writer", "reviewer"}

DIdle ==
    /\ d_entry = "off"
    /\ d_pc = "off"
    /\ d_node = "none"
    /\ d_steps = 0
    /\ d_state = ScriptInitialState
    /\ d_current_paper = FALSE
    /\ d_was_set = FALSE
    /\ d_html = "ok"
    /\ d_writer_calls = 0
    /\ d_always_revision = TRUE
    /\ d_review = "none"
    /\ d_report = EMPTY_REPORT
    /\ d_md_written = FALSE
    /\ d_exit = 0

\* the deep_analysis command, run_deep_analysis of the package with or
\* without full text, or a caller that invokes the compiled graph on a state
\* made by create_initial_state
DInit ==
    /\ d_entry \in {"script", "package", "graph"}
    /\ d_pc \in (CASE d_entry = "script" -> {"main"}
                   [] d_entry = "package" -> {"pdf", "create_state"}
                   [] d_entry = "graph" -> {"graph"})
    /\ d_node = (IF d_entry = "graph" THEN "supervisor" ELSE "none")
    /\ d_steps = 0
    /\ d_state \in (IF d_entry = "graph"
                    THEN {CreateInitialState(m, w) : m \in 0..MaxResearchIterations,
                                                     w \in 0..MaxWriteIterations}
                    ELSE {ScriptInitialState})
    /\ d_current_paper = FALSE
    /\ d_was_set = FALSE
    /\ d_html \in (IF d_entry = "script" THEN {"ok", "404"} ELSE {"ok"})
    /\ d_writer_calls = 0
    /\ d_always_revision = TRUE
    /\ d_review = "none"
    /\ d_report = EMPTY_REPORT
    /\ d_md_written = FALSE
    /\ d_exit = 0

DExit(code) == d_pc' = "exited" /\ d_exit' = code

\* main of scripts/deep_analysis.py up to the graph: configuration check,
\* issue title, paper lookup; an exception of the lookup is not caught
DScriptStart ==
    /\ d_entry = "script"
    /\ d_pc = "main"
    /\ \E how \in {"config_invalid", "bad_title", "not_found", "lookup_raised", "found"} :
         CASE how \in {"config_invalid", "bad_title", "lookup_raised"} ->
                DExit(1) /\ UNCHANGED d_node
           [] how = "not_found" ->
                DExit(2) /\ UNCHANGED d_node
           [] how = "found" ->
                d_pc' = "graph" /\ d_node' = "supervisor" /\ UNCHANGED d_exit
    /\ UNCHANGED <<d_entry, d_steps, d_state, d_current_paper, d_was_set, d_html,
                   d_writer_calls, d_always_revision, d_review, d_report, d_md_written,
                   pvars, lvars, avars, mvars, fvars, nvars, tvars, wvars, kvars, rvars, cvars, svars>>

\* the PDF stage of the package's run_deep_analysis: set_current_paper is
\* called when the parse succeeded; whatever is raised in the stage is caught
DPackagePdf ==
    /\ d_entry = "package"
    /\ d_pc = "pdf"
    /\ \E how \in {"success", "raised_after_set", "parse_failed", "raised"} :
         /\ d_current_paper' = (d_current_paper \/ how \in {"success", "raised_after_set"})
         /\ d_was_set' = (how \in {"success", "raised_after_set"})
    /\ d_pc' = "create_state"
    /\ UNCHANGED <<d_entry, d_node, d_steps, d_state, d_html, d_writer_calls,
                   d_always_revision, d_review, d_report, d_md_written, d_exit,
                   pvars, lvars, avars, mvars, fvars, nvars, tvars, wvars, kvars, rvars, cvars, svars>>

\* create_initial_state(...) in the package's run_deep_analysis, outside the
\* try/finally: a TypeError leaves the function at once
DPackageCreateState ==
    /\ d_entry = "package"
    /\ d_pc = "create_state"
    /\ IF CallAccepted(PackageCallKeywords)
       THEN /\ d_pc' = "graph"
            /\ d_node' = "supervisor"
            /\ d_state' = CreateInitialState(DEFAULT_MAX_ITERATIONS,
                                             DEFAULT_MAX_WRITE_ITERATIONS)
       ELSE /\ d_pc' = "raised"
            /\ UNCHANGED <<d_node, d_state>>
    /\ UNCHANGED <<d_entry, d_steps, d_current_paper, d_was_set, d_html, d_writer_calls,
                   d_always_revision, d_review, d_report, d_md_written, d_exit,
                   pvars, lvars, avars, mvars, fvars, nvars, tvars, wvars, kvars, rvars, cvars, svars>>

\* a node runs while the graph has supersteps left
CanStep(node) ==
    /\ d_pc = "graph"
    /\ d_node = node
    /\ d_steps < RECURSION_LIMIT

DFrame == UNCHANGED <<d_entry, d_pc, d_current_paper, d_was_set, d_html, d_report,
                      d_md_written, d_exit, pvars, lvars, avars, mvars, fvars, nvars, tvars, wvars, kvars, rvars, cvars, svars>>

\* what the supervisor's LLM can answer: one tool call, two tool calls in
\* one turn, a call of a tool with another name, none, or an exception
SupervisorResponses ==
    {"conduct_research", "conduct_research_no_topic", "research_complete",
     "conduct_then_complete", "complete_then_conduct", "unknown_tool",
     "no_tool_call", "error"}

\* last_message.tool_calls of an answer
ToolCalls(message) ==
    CASE message = "conduct_research" ->
           <<[name |-> "conduct_research", topic |-> "topic"]>>
      [] message = "conduct_research_no_topic" ->
           <<[name |-> "conduct_research", topic |-> "empty"]>>
      [] message = "research_complete" ->
           <<[name |-> "research_complete", topic |-> "none"]>>
      [] message = "conduct_then_complete" ->
           <<[name |-> "conduct_research", topic |-> "topic"],
             [name |-> "research_complete", topic |-> "none"]>>
      [] message = "complete_then_conduct" ->
           <<[name |-> "research_complete", topic |-> "none"],
             [name |-> "conduct_research", topic |-> "topic"]>>
      [] message = "unknown_tool" ->
           <<[name |-> "unknown", topic |-> "none"]>>
      [] OTHER -> << >>

\* supervisor_node: the LLM answers with tool calls, or without one; an
\* exception of the LLM call is not caught
DSupervisor ==
    /\ CanStep("supervisor")
    /\ d_steps' = d_steps + 1
    /\ \E response \in SupervisorResponses :
         IF response = "error"
         THEN d_node' = "raised" /\ UNCHANGED d_state
         ELSE /\ d_node' = "supervisor_tools"
              /\ d_state' = Update(d_state, [supervisor_messages |-> response])
    /\ UNCHANGED <<d_writer_calls, d_always_revision, d_review>>
    /\ DFrame

RouteSupervisorToolsDefaultWriter(st) ==
    IF Get(st, "next_action", "none") = "research" THEN "researcher" ELSE "writer"

\* route_supervisor_tools
RouteSupervisorTools(st) ==
    IF Get(st, "next_action", "none") = "research" THEN "researcher"
    ELSE IF Get(st, "next_action", "none") = "write" THEN "writer"
    ELSE "researcher"

RECURSIVE ParseToolCallsFirstWins(_, _)
ParseToolCallsFirstWins(tool_calls, acc) ==
    IF tool_calls = << >> THEN acc
    ELSE LET tool_call == tool_calls[Len(tool_calls)]
             rest == SubSeq(tool_calls, 1, Len(tool_calls) - 1)
         IN ParseToolCallsFirstWins(rest,
              IF tool_call.name = "conduct_research"
              THEN [next_action |-> "research", current_research_topic |-> tool_call.topic]
              ELSE IF tool_call.name = "research_complete"
              THEN [acc EXCEPT !.next_action = "write"]
              ELSE acc)

\* the loop of supervisor_tools_node over the tool calls of the turn, from
\* acc = (None, None): conduct_research sets the action and the topic,
\* research_complete the action only, a call of another name nothing
RECURSIVE ParseToolCalls(_, _)
ParseToolCalls(tool_calls, acc) ==
    IF tool_calls = << >> THEN acc
    ELSE LET tool_call == Head(tool_calls)
         IN ParseToolCalls(Tail(tool_calls),
              IF tool_call.name = "conduct_research"
              THEN [next_action |-> "research", current_research_topic |-> tool_call.topic]
              ELSE IF tool_call.name = "research_complete"
              THEN [acc EXCEPT !.next_action = "write"]
              ELSE acc)

\* the update supervisor_tools_node returns: nothing when the last message
\* has no tool call
SupervisorToolsUpdate(last_message) ==
    IF ToolCalls(last_message) = << >> THEN << >>
    ELSE ParseToolCalls(ToolCalls(last_message),
                        [next_action |-> "none", current_research_topic |-> "none"])

\* supervisor_tools_node, then the conditional edge
DSupervisorTools ==
    /\ CanStep("supervisor_tools")
    /\ d_steps' = d_steps + 1
    /\ LET last_message == Get(d_state, "supervisor_messages", "none")
           upd == SupervisorToolsUpdate(last_message)
       IN /\ d_state' = Update(d_state, upd)
          /\ d_node' = RouteSupervisorTools(d_state')
    /\ UNCHANGED <<d_writer_calls, d_always_revision, d_review>>
    /\ DFrame

\* researcher_node: one more note and one more iteration; the edge back to
\* the supervisor is unconditional
DResearcher ==
    /\ CanStep("researcher")
    /\ d_steps' = d_steps + 1
    /\ LET counted == [research_notes |-> Get(d_state, "research_notes", 0) + 1,
                       research_iterations |-> Get(d_state, "research_iterations", 0) + 1]
       IN d_state' = IF Falsy(Get(d_state, "current_research_topic", "none"))
                     THEN Update(d_state, counted)
                     ELSE Update(d_state, [current_research_topic |-> "none"] @@ counted)
    /\ d_node' = "supervisor"
    /\ UNCHANGED <<d_writer_calls, d_always_revision, d_review>>
    /\ DFrame

\* writer_node: the draft is the LLM's text, possibly empty, or the failure
\* text when the call raised
DWriter ==
    /\ CanStep("writer")
    /\ d_steps' = d_steps + 1
    /\ \E how \in {"text", "empty", "error"} :
         d_state' = Update(d_state,
                      [draft_report |-> IF how = "empty" THEN EMPTY_REPORT
                                        ELSE d_writer_calls + 1,
                       write_iterations |-> Get(d_state, "write_iterations", 0) + 1,
                       review_feedback |-> "none"])
    /\ d_writer_calls' = d_writer_calls + 1
    /\ d_node' = "reviewer"
    /\ UNCHANGED <<d_always_revision, d_review>>
    /\ DFrame

RouteReviewerNoCap(st) ==
    IF Get(st, "next_action", "none") = "write" THEN "writer" ELSE "END"

\* route_reviewer
RouteReviewer(st) ==
    IF Get(st, "write_iterations", 0) >= Get(st, "max_write_iterations",
                                             DEFAULT_MAX_WRITE_ITERATIONS)
    THEN "END"
    ELSE IF Get(st, "next_action", "none") = "write" THEN "writer" ELSE "END"

\* what the reviewer's LLM can answer: a call of one of its two tools, a
\* call of both in one turn, a tool call with another name, no tool call, or
\* an exception
ReviewerResponses ==
    {"approve_report", "request_revision", "approve_then_revise", "revise_then_approve",
     "unknown_tool", "no_tool_call", "error"}

\* the update reviewer_node returns for a draft that is not empty: each
\* tool call of the turn writes its keys into result, the later call
\* overwriting next_action; result stays {} when the turn has tool calls
\* and none is one of the two tools
ReviewerResult(response, draft_report) ==
    CASE response = "approve_report" ->
           [final_report |-> draft_report, next_action |-> "end"]
      [] response = "request_revision" ->
           [review_feedback |-> "feedback", next_action |-> "write"]
      [] response = "approve_then_revise" ->
           [final_report |-> draft_report, review_feedback |-> "feedback",
            next_action |-> "write"]
      [] response = "revise_then_approve" ->
           [final_report |-> draft_report, review_feedback |-> "feedback",
            next_action |-> "end"]
      [] response = "unknown_tool" -> << >>
      [] OTHER -> [final_report |-> draft_report, next_action |-> "end"]

\* reviewer_node, then the conditional edge
DReviewer ==
    /\ CanStep("reviewer")
    /\ d_steps' = d_steps + 1
    /\ LET draft_report == Get(d_state, "draft_report", EMPTY_REPORT)
       IN IF draft_report = EMPTY_REPORT
          THEN /\ d_state' = Update(d_state, [final_report |-> NO_CONTENT_REPORT,
                                              next_action |-> "end"])
               /\ d_always_revision' = FALSE
               /\ d_review' = "none"
          ELSE \E response \in ReviewerResponses :
                 /\ d_state' = Update(d_state, ReviewerResult(response, draft_report))
                 /\ d_always_revision' = (d_always_revision /\ response = "request_revision")
                 /\ d_review' = response
    /\ d_node' = RouteReviewer(d_state')
    /\ UNCHANGED d_writer_calls
    /\ DFrame

\* the graph ran its supersteps without reaching END: GraphRecursionError
DRecursionError ==
    /\ d_pc = "graph"
    /\ d_node \in GraphNodes
    /\ d_steps >= RECURSION_LIMIT
    /\ d_node' = "raised"
    /\ UNCHANGED <<d_steps, d_state, d_writer_calls, d_always_revision, d_review>>
    /\ DFrame

\* the report the script takes from the final state: final_report, else
\* the key "draft", else the fallback text
ScriptReport(st) ==
    IF Get(st, "final_report", EMPTY_REPORT) # EMPTY_REPORT
    THEN Get(st, "final_report", EMPTY_REPORT)
    ELSE Get(st, "draft", SCRIPT_FALLBACK_REPORT)

\* the report the package's run_deep_analysis takes from the final state
PackageReport(st) ==
    IF Get(st, "final_report", EMPTY_REPORT) # EMPTY_REPORT
    THEN Get(st, "final_report", EMPTY_REPORT)
    ELSE IF Get(st, "draft_report", EMPTY_REPORT) # EMPTY_REPORT
    THEN Get(st, "draft_report", EMPTY_REPORT)
    ELSE PACKAGE_FALLBACK_REPORT

\* graph.ainvoke is over: the script saves the report and exits 0, or exits
\* 3 when it raised; the package clears the current paper in its finally
\* what main's notification step does: no --repo, send_notification returned
\* (True or False), or the notifier raised an exception _send_card does not catch
NotificationOutcomes == {"skipped", "returned", "raised"}

DFinish ==
    /\ d_pc = "graph"
    /\ d_node \in {"END", "raised"}
    /\ CASE d_entry = "script" ->
              IF d_node = "raised"
              THEN /\ DExit(3)
                   /\ UNCHANGED <<d_report, d_md_written, d_current_paper>>
              ELSE \* save_analysis_result, then send_notification outside any
                   \* try: an exception of the notifier leaves main (exit 1)
                   /\ \E notification \in NotificationOutcomes :
                          DExit(IF notification = "raised" THEN 1 ELSE 0)
                   /\ d_report' = ScriptReport(d_state)
                   /\ d_md_written' = TRUE
                   /\ UNCHANGED d_current_paper
         [] d_entry = "package" ->
              /\ d_current_paper' = FALSE
              /\ d_pc' = (IF d_node = "raised" THEN "raised" ELSE "returned")
              /\ d_report' = (IF d_node = "raised" THEN d_report ELSE PackageReport(d_state))
              /\ UNCHANGED <<d_md_written, d_exit>>
         [] OTHER ->
              /\ d_pc' = (IF d_node = "raised" THEN "raised" ELSE "returned")
              /\ d_report' = Get(d_state, "final_report", EMPTY_REPORT)
              /\ UNCHANGED <<d_md_written, d_exit, d_current_paper>>
    /\ UNCHANGED <<d_entry, d_node, d_steps, d_state, d_was_set, d_html, d_writer_calls,
                   d_always_revision, d_review, pvars, lvars, avars, mvars, fvars, nvars, tvars, wvars, kvars, rvars, cvars, svars>>

DNext ==
    \/ DScriptStart
    \/ DPackagePdf
    \/ DPackageCreateState
    \/ DSupervisor
    \/ DSupervisorTools
    \/ DResearcher
    \/ DWriter
    \/ DReviewer
    \/ DRecursionError
    \/ DFinish

(***************************************************************************)
(* AsyncArxivClient.fetch_recent_papers: pagination, merge and filters     *)
(***************************************************************************)
\* the categories of one call, in the order they are passed
FetchCategories == <<"cs.AI", "cs.CL">>

\* the instant of the call, in hours
FetchNow == 100

FetchCutoff == FetchNow - ARXIV_HOURS

Max(a, b) == IF a >= b THEN a ELSE b

\* the entries the API knows: entry i was submitted at hour FetchCutoff - 3 + i,
\* so entries 1 and 2 were submitted before the window; entry 1 carries no
\* <updated> element, entry 4 was revised at the instant of the call, the
\* others were never revised (<updated> = <published>); the primary category
\* of every third entry is not a requested one
ApiEntry(i) ==
    [id |-> i,
     published |-> FetchCutoff - 3 + i,
     updated |-> CASE i = 1 -> NoTime
                   [] i = 4 -> FetchNow
                   [] OTHER -> FetchCutoff - 3 + i,
     primary_category |-> CASE i % 3 = 1 -> "cs.AI"
                            [] i % 3 = 2 -> "cs.CL"
                            [] OTHER -> "stat.ML"]

\* _parse_datetime: an absent (or unparsable) date string becomes now
ParseDatetime(date_str) == IF date_str = NoTime THEN FetchNow ELSE date_str

\* _entry_to_paper
EntryToPaper(entry) ==
    [id |-> entry.id,
     published |-> ParseDatetime(entry.published),
     updated |-> ParseDatetime(entry.updated),
     primary_category |-> entry.primary_category]

ApiPaper(i) == EntryToPaper(ApiEntry(i))

\* sortBy=submittedDate, sortOrder=descending
RECURSIVE NewestFirst(_)
NewestFirst(ids) ==
    IF ids = {} THEN <<>>
    ELSE LET m == CHOOSE x \in ids : \A y \in ids : y <= x
         IN <<ApiPaper(m)>> \o NewestFirst(ids \ {m})

\* what the API may list under one category
ApiFeeds == {NewestFirst(ids) : ids \in SUBSET (1..NumFeedPapers)}

\* _latest_time: the later of published and updated
LatestTime(paper) ==
    IF paper.updated # NoTime THEN Max(paper.published, paper.updated)
    ELSE paper.published

\* the entries the API returns for start and max_results
PageOf(feed, start) ==
    SubSeq(feed, start + 1, IF start + PageSize < Len(feed) THEN start + PageSize ELSE Len(feed))

StopAfterPageShortOnly(page_papers, cutoff) == Len(page_papers) < PageSize

\* the breaks of the page loop after a page was received
StopAfterPage(page_papers, cutoff) ==
    \/ Len(page_papers) < PageSize
    \/ LatestTime(page_papers[Len(page_papers)]) < cutoff

\* _fetch_category_paginated from page page_idx on; fail is the page whose
\* _fetch_and_parse raises, 0 for none
RECURSIVE FetchCategoryPaginated(_, _, _, _, _, _)
FetchCategoryPaginated(feed, fail, page_idx, start, collected, requests) ==
    IF page_idx >= MaxPages
    THEN [raised |-> FALSE, collected |-> collected, requests |-> requests]
    ELSE LET page_papers == PageOf(feed, start)
         IN IF fail = page_idx + 1
            THEN [raised |-> TRUE, collected |-> <<>>,
                  requests |-> Append(requests, start)]
            ELSE IF StopAfterPage(page_papers, FetchCutoff)
            THEN [raised |-> FALSE, collected |-> collected \o page_papers,
                  requests |-> Append(requests, start)]
            ELSE FetchCategoryPaginated(feed, fail, page_idx + 1, start + PageSize,
                                        collected \o page_papers,
                                        Append(requests, start))

RECURSIVE Concat(_)
Concat(lists) ==
    IF lists = <<>> THEN <<>>
    ELSE lists[1] \o Concat(SubSeq(lists, 2, Len(lists)))

AllPapersNoneOnFailure(outcome, collected) ==
    IF \E k \in 1..Len(FetchCategories) : outcome[k] = "raised" THEN <<>>
    ELSE Concat(collected)

\* the loop over the gather results: an exception is logged and skipped, a
\* list is appended
AllPapers(outcome, collected) ==
    Concat([k \in 1..Len(FetchCategories) |->
               IF outcome[k] = "raised" THEN <<>> ELSE collected[k]])

\* dedup by paper id, the first occurrence stays
RECURSIVE UniquePapers(_)
UniquePapers(papers) ==
    IF papers = <<>> THEN <<>>
    ELSE LET front == UniquePapers(SubSeq(papers, 1, Len(papers) - 1))
             x == papers[Len(papers)]
         IN IF \E k \in 1..Len(front) : front[k].id = x.id THEN front
            ELSE Append(front, x)

FilterByPrimaryOff(papers) == papers

\* keep the papers whose primary category was requested
FilterByPrimary(papers) ==
    SelectSeq(papers, LAMBDA p : \E c \in 1..Len(FetchCategories) :
                                     p.primary_category = FetchCategories[c])

\* _filter_by_hours
FilterByHours(papers, t, hours) ==
    SelectSeq(papers, LAMBDA p : LatestTime(p) >= t - hours)

FIdle ==
    /\ f_pc = "off"
    /\ f_feed = [c \in 1..Len(FetchCategories) |-> <<>>]
    /\ f_fail = [c \in 1..Len(FetchCategories) |-> 0]
    /\ f_outcome = [c \in 1..Len(FetchCategories) |-> "none"]
    /\ f_requests = [c \in 1..Len(FetchCategories) |-> <<>>]
    /\ f_collected = [c \in 1..Len(FetchCategories) |-> <<>>]
    /\ f_result = <<>>

FInit ==
    /\ f_pc = "gather"
    /\ f_feed \in [1..Len(FetchCategories) -> ApiFeeds]
    /\ f_fail \in [1..Len(FetchCategories) -> 0..MaxPages]
    /\ f_outcome = [c \in 1..Len(FetchCategories) |-> "pending"]
    /\ f_requests = [c \in 1..Len(FetchCategories) |-> <<>>]
    /\ f_collected = [c \in 1..Len(FetchCategories) |-> <<>>]
    /\ f_result = <<>>

\* one _rate_limited_request runs to its end (the gate serialises them)
FFetchCategory(c) ==
    /\ f_pc = "gather"
    /\ f_outcome[c] = "pending"
    /\ LET r == FetchCategoryPaginated(f_feed[c], f_fail[c], 0, 0, <<>>, <<>>)
       IN /\ f_outcome' = [f_outcome EXCEPT ![c] = IF r.raised THEN "raised" ELSE "ok"]
          /\ f_requests' = [f_requests EXCEPT ![c] = r.requests]
          /\ f_collected' = [f_collected EXCEPT ![c] = r.collected]
    /\ UNCHANGED <<f_pc, f_feed, f_fail, f_result, pvars, lvars, avars, mvars, dvars, nvars, tvars, wvars, kvars, rvars, cvars, svars>>

\* gather returned: merge, dedup, filter, return
FReturn ==
    /\ f_pc = "gather"
    /\ \A c \in 1..Len(FetchCategories) : f_outcome[c] # "pending"
    /\ f_result' = FilterByHours(
                       FilterByPrimary(UniquePapers(AllPapers(f_outcome, f_collected))),
                       FetchNow, ARXIV_HOURS)
    /\ f_pc' = "returned"
    /\ UNCHANGED <<f_feed, f_fail, f_outcome, f_requests, f_collected,
                   pvars, lvars, avars, mvars, dvars, nvars, tvars, wvars, kvars, rvars, cvars, svars>>

FNext ==
    \/ \E c \in 1..Len(FetchCategories) : FFetchCategory(c)
    \/ FReturn

(***************************************************************************)
(* One NewsFetcher.fetch_all call                                          *)
(***************************************************************************)
NIdle ==
    /\ n_pc = "off"
    /\ n_all_items = <<>>
    /\ n_fetched = [papers |-> {}, news |-> {}]
    /\ n_returned = <<>>

\* the sources delivered up to MaxIncoming + 1 items; the tracker holds any
\* of the ids
NInit ==
    /\ n_pc = "merged"
    /\ n_all_items \in SeqsUpTo({NewsItem(i, 0 - a) : i \in NewsIds, a \in NewsAges},
                                MaxIncoming + 1)
    /\ n_fetched \in {[papers |-> {}, news |-> S] : S \in SUBSET NewsIds}
    /\ n_returned = <<>>

\* time filter, dedup, history dedup, sort, return
NFetchAll ==
    /\ n_pc = "merged"
    /\ n_returned' = FetchAll(n_all_items, n_fetched, 0, NEWS_HOURS)
    /\ n_pc' = "returned"
    /\ UNCHANGED <<n_all_items, n_fetched, pvars, lvars, avars, mvars, dvars, fvars, tvars, wvars, kvars, rvars, cvars, svars>>

(***************************************************************************)
(* IdsTracker.cleanup and ProcessedTracker.cleanup over ISO timestamps     *)
(***************************************************************************)
\* an instant: s the date and time down to the second, counted in hours, and
\* u the microseconds
Instant(s, u) == [s |-> s, u |-> u]

\* datetime.isoformat(): the fixed-width date and time, the microseconds
\* only when they are not 0, then the offset "+00:00"
IsoFormat(t) ==
    <<t.s>> \o (IF t.u = 0 THEN <<>> ELSE <<CHAR_DOT, t.u>>) \o <<CHAR_PLUS>>

\* a >= b for strings: character by character
RECURSIVE StrGE(_, _)
StrGE(a, b) ==
    IF b = <<>> THEN TRUE
    ELSE IF a = <<>> THEN FALSE
    ELSE IF a[1] # b[1] THEN a[1] > b[1]
    ELSE StrGE(Tail(a), Tail(b))

\* now - timedelta(days=retention_days)
TrackerCutoff(t) == Instant(t.s - RetentionHours, t.u)

KeepsEntryStrictlyNewer(ts, cutoff_str) == ~StrGE(cutoff_str, ts)

\* the test of the dict comprehension
KeepsEntry(ts, cutoff_str) == StrGE(ts, cutoff_str)

Kept(m, cutoff_str) == [i \in {j \in DOMAIN m : KeepsEntry(m[j], cutoff_str)} |-> m[i]]

TrackerCategories == {"papers", "news"}

\* the instants entries were first seen at: around the cutoff of a call at
\* hour RetentionHours
EntryInstants == {Instant(-1, 0), Instant(0, 0), Instant(0, 1), Instant(1, 0)}

\* the timestamps mark_papers / mark_news wrote
TrackerMaps(ids) ==
    UNION {[S -> {IsoFormat(t) : t \in EntryInstants}] : S \in SUBSET ids}

NoCall == [category |-> "none", ids |-> {}]

TIdle ==
    /\ t_pc = "off"
    /\ t_now = Instant(0, 0)
    /\ t_before = [c \in TrackerCategories |-> EmptyMap]
    /\ t_data = [c \in TrackerCategories |-> EmptyMap]
    /\ t_removed = 0
    /\ t_saved = FALSE
    /\ t_call = NoCall

TInit ==
    /\ t_pc = "loaded"
    /\ t_now \in {Instant(RetentionHours, u) : u \in {0, 1}}
    /\ t_before \in {[c \in TrackerCategories |-> IF c = "papers" THEN p ELSE n] :
                        p \in TrackerMaps(PaperIds), n \in TrackerMaps(NewsIds)}
    /\ t_data = t_before
    /\ t_removed = 0
    /\ t_saved = FALSE
    /\ t_call = NoCall

\* cleanup(): drop, count, save if anything was dropped, return the count
TCleanup ==
    /\ t_pc = "loaded"
    /\ LET cutoff_str == IsoFormat(TrackerCutoff(t_now))
           cleaned == [c \in TrackerCategories |-> Kept(t_data[c], cutoff_str)]
           cleaned_count ==
               (Cardinality(DOMAIN t_data["papers"]) - Cardinality(DOMAIN cleaned["papers"]))
               + (Cardinality(DOMAIN t_data["news"]) - Cardinality(DOMAIN cleaned["news"]))
       IN /\ t_data' = cleaned
          /\ t_removed' = cleaned_count
          /\ t_saved' = (cleaned_count > 0)
    /\ t_pc' = "cleaned"
    /\ UNCHANGED <<t_now, t_before, t_call, pvars, lvars, avars, mvars, dvars, fvars, nvars, wvars, kvars, rvars, cvars, svars>>

MarkEntriesOverwriting(m, ids, now_str) ==
    [i \in DOMAIN m \cup ids |-> IF i \in ids THEN now_str ELSE m[i]]

\* the loop of mark_papers / mark_news (mark_papers_processed /
\* mark_news_processed of ProcessedTracker are the same): an id gets now
\* only if it is not in the category yet
MarkEntries(m, ids, now_str) ==
    [i \in DOMAIN m \cup ids |-> IF i \in DOMAIN m THEN m[i] ELSE now_str]

IdsOfCategory(c) == IF c = "papers" THEN PaperIds ELSE NewsIds

\* mark_papers(ids) or mark_news(ids): load, mark, save
TMark ==
    /\ t_pc = "loaded"
    /\ \E c \in TrackerCategories : \E ids \in SUBSET IdsOfCategory(c) :
         /\ t_data' = [t_data EXCEPT ![c] = MarkEntries(t_data[c], ids, IsoFormat(t_now))]
         /\ t_call' = [category |-> c, ids |-> ids]
    /\ t_saved' = TRUE
    /\ t_pc' = "marked"
    /\ UNCHANGED <<t_now, t_before, t_removed, pvars, lvars, avars, mvars, dvars, fvars, nvars, wvars, kvars, rvars, cvars, svars>>

TNext == TCleanup \/ TMark

(***************************************************************************)
(* Saving a file: IdsTracker.save, ProcessedTracker.save, save_*_json      *)
(***************************************************************************)
\* json.dump: the text of a list, written piece by piece
Serialise(items) == <<CHAR_OPEN>> \o items \o <<CHAR_CLOSE>>

SavedFiles == {"fetched_ids", "processed_ids", "papers", "analyzed_papers"}

FileContents == SeqsUpTo(PaperIds, NumPapers)

WIdle ==
    /\ w_pc = "off"
    /\ w_file = "none"
    /\ w_old = <<>>
    /\ w_new = <<>>
    /\ w_disk = <<>>

\* a complete file is on disk and a save of new content begins
WInit ==
    /\ w_pc = "open"
    /\ w_file \in SavedFiles
    /\ w_old \in FileContents
    /\ w_new \in FileContents
    /\ w_disk = Serialise(w_old)

\* open(file_path, "w"): the file is truncated
WOpen ==
    /\ w_pc = "open"
    /\ w_disk' = <<>>
    /\ w_pc' = "dump"
    /\ UNCHANGED <<w_file, w_old, w_new, pvars, lvars, avars, mvars, dvars, fvars, nvars, tvars, kvars, rvars, cvars, svars>>

\* json.dump(data, f): the next piece of the text reaches the file
WWrite ==
    /\ w_pc = "dump"
    /\ Len(w_disk) < Len(Serialise(w_new))
    /\ w_disk' = Append(w_disk, Serialise(w_new)[Len(w_disk) + 1])
    /\ UNCHANGED <<w_pc, w_file, w_old, w_new, pvars, lvars, avars, mvars, dvars, fvars, nvars, tvars, kvars, rvars, cvars, svars>>

\* the with block is left: the file is closed
WClose ==
    /\ w_pc = "dump"
    /\ w_disk = Serialise(w_new)
    /\ w_pc' = "saved"
    /\ UNCHANGED <<w_file, w_old, w_new, w_disk, pvars, lvars, avars, mvars, dvars, fvars, nvars, tvars, kvars, rvars, cvars, svars>>

\* the process stops while the save is under way
WStop ==
    /\ w_pc \in {"open", "dump"}
    /\ w_pc' = "stopped"
    /\ UNCHANGED <<w_file, w_old, w_new, w_disk, pvars, lvars, avars, mvars, dvars, fvars, nvars, tvars, kvars, rvars, cvars, svars>>

WNext == WOpen \/ WWrite \/ WClose \/ WStop

(***************************************************************************)
(* task_notify and FeishuNotifier._send_card                               *)
(***************************************************************************)
\* how one POST to the webhook ends
PostOutcomes == {"sent", "bad_status", "api_error", "client_error", "timeout",
                 "malformed_body"}

\* the failures of a notification: a status other than 200, a response code
\* other than 0, an aiohttp.ClientError, an asyncio.TimeoutError
NotifyFailures == {"bad_status", "api_error", "client_error", "timeout"}

HandledClientErrorOnly(outcome) == outcome \in {"bad_status", "api_error", "client_error"}

\* the outcomes after which _send_card goes on: the two logged responses and
\* the two except clauses
Handled(outcome) == outcome \in {"bad_status", "api_error", "client_error", "timeout"}

\* today's report file: absent, a valid DailyReport, or a file that json.loads
\* or DailyReport.model_validate rejects
ReportFiles == {"absent", "valid", "invalid"}

KIdle ==
    /\ k_pc = "off"
    /\ k_report = "absent"
    /\ k_configured = FALSE
    /\ k_attempt = 0
    /\ k_seen = <<>>
    /\ k_logged = FALSE
    /\ k_result = "none"
    /\ k_raised = FALSE

KInit ==
    /\ k_pc = "start"
    /\ k_report \in ReportFiles
    /\ k_configured \in BOOLEAN
    /\ k_attempt = 0
    /\ k_seen = <<>>
    /\ k_logged = FALSE
    /\ k_result = "none"
    /\ k_raised = FALSE

\* task_notify up to the POST: no report file is a warning and False; the
\* file is read and validated outside any try; without a webhook url
\* get_notifier gives a DummyNotifier, whose send_daily_report returns True
KStart ==
    /\ k_pc = "start"
    /\ CASE k_report = "absent" ->
              k_pc' = "returned" /\ k_result' = "false" /\ k_logged' = TRUE
              /\ UNCHANGED k_raised
         [] k_report = "invalid" ->
              k_pc' = "returned" /\ k_raised' = TRUE
              /\ UNCHANGED <<k_result, k_logged>>
         [] k_report = "valid" /\ ~k_configured ->
              k_pc' = "returned" /\ k_result' = "true"
              /\ UNCHANGED <<k_logged, k_raised>>
         [] OTHER ->
              k_pc' = "post" /\ UNCHANGED <<k_result, k_logged, k_raised>>
    /\ UNCHANGED <<k_report, k_configured, k_attempt, k_seen,
                   pvars, lvars, avars, mvars, dvars, fvars, nvars, tvars, wvars, rvars, cvars, svars>>

\* one attempt of _send_card ends
KPost ==
    /\ k_pc = "post"
    /\ \E outcome \in PostOutcomes :
         /\ k_seen' = Append(k_seen, outcome)
         /\ IF outcome = "sent"
            THEN /\ k_pc' = "returned"
                 /\ k_result' = "true"
                 /\ UNCHANGED <<k_logged, k_raised, k_attempt>>
            ELSE IF ~Handled(outcome)
            THEN /\ k_pc' = "returned"
                 /\ k_raised' = TRUE
                 /\ UNCHANGED <<k_logged, k_result, k_attempt>>
            ELSE /\ k_logged' = TRUE
                 /\ IF k_attempt < NotifyMaxRetries
                    THEN k_pc' = "sleep" /\ k_result' = k_result
                    ELSE k_pc' = "returned" /\ k_result' = "false"
                 /\ UNCHANGED <<k_raised, k_attempt>>
    /\ UNCHANGED <<k_report, k_configured,
                   pvars, lvars, avars, mvars, dvars, fvars, nvars, tvars, wvars, rvars, cvars, svars>>

\* asyncio.sleep(2 ** attempt) is over: the next attempt
KRetry ==
    /\ k_pc = "sleep"
    /\ k_attempt' = k_attempt + 1
    /\ k_pc' = "post"
    /\ UNCHANGED <<k_report, k_configured, k_seen, k_logged, k_result, k_raised,
                   pvars, lvars, avars, mvars, dvars, fvars, nvars, tvars, wvars, rvars, cvars, svars>>

KNext == KStart \/ KPost \/ KRetry

(***************************************************************************)
(* The researcher's ReAct loop: execute_react_agent                        *)
(***************************************************************************)
\* _execute_standard_react or execute_deepseek_reasoner_agent
ReactModes == {"standard", "reasoner"}

\* how one LLM call of the loop can end: an answer with one or two tool
\* calls, an answer without tool calls, or an exception
TurnOutcomes == {"tool_call", "two_tool_calls", "final", "error"}

ToolCallsOf(outcome) ==
    CASE outcome = "tool_call" -> 1
      [] outcome = "two_tool_calls" -> 2
      [] OTHER -> 0

RIdle ==
    /\ r_pc = "off"
    /\ r_mode = "standard"
    /\ r_turns = 0
    /\ r_tool_messages = 0
    /\ r_last = "none"

\* researcher_node calls execute_react_agent with max_iterations = 10
RInit ==
    /\ r_pc = "loop"
    /\ r_mode \in ReactModes
    /\ r_turns = 0
    /\ r_tool_messages = 0
    /\ r_last = "none"

LoopGoesOnAfterFinal(outcome, iteration, max_iterations) ==
    outcome # "error" /\ iteration + 1 < max_iterations

\* whether the for loop runs another iteration after the one with index
\* iteration: not after an exception (break), not after an answer without
\* tool calls (break), not after the last index of range(max_iterations)
LoopGoesOn(outcome, iteration, max_iterations) ==
    /\ outcome \notin {"error", "final"}
    /\ iteration + 1 < max_iterations

\* one iteration of the loop: the LLM call, then every tool call of the
\* answer is executed and answered by a ToolMessage (also for an unknown
\* tool and for a tool that raised)
RTurn ==
    /\ r_pc = "loop"
    /\ \E outcome \in TurnOutcomes :
         /\ r_last' = outcome
         /\ r_tool_messages' = r_tool_messages + ToolCallsOf(outcome)
         /\ r_pc' = IF LoopGoesOn(outcome, r_turns, MAX_TOOL_ITERATIONS)
                    THEN "loop" ELSE "returned"
    /\ r_turns' = r_turns + 1
    /\ UNCHANGED <<r_mode, pvars, lvars, avars, mvars, dvars, fvars, nvars, tvars, wvars, kvars, cvars, svars>>

(***************************************************************************)
(* AsyncNewsCrawler.fetch_all: listing pages and detail pages              *)
(***************************************************************************)
Sources == 1..NumSources

NoTasks == [s \in Sources |-> 0]

CIdle ==
    /\ c_src = [s \in Sources |-> "off"]
    /\ c_waiting = NoTasks
    /\ c_loading = NoTasks
    /\ c_fetched = NoTasks
    /\ c_sem = CrawlerMaxConcurrent
    /\ c_detail_sem = CrawlerMaxConcurrent

\* __init__ made both semaphores with max_concurrent permits; fetch_all
\* starts one _fetch_source task per crawler source
CInit ==
    /\ c_src = [s \in Sources |-> "wait_listing"]
    /\ c_waiting = NoTasks
    /\ c_loading = NoTasks
    /\ c_fetched = NoTasks
    /\ c_sem = CrawlerMaxConcurrent
    /\ c_detail_sem = CrawlerMaxConcurrent

\* _fetch_source enters `async with self._semaphore`; get_extractor raises
\* ValueError for an unknown extractor and the task returns [] at once,
\* otherwise crawler.arun loads the listing page
CAcquireListing(s) ==
    /\ c_src[s] = "wait_listing"
    /\ c_sem > 0
    /\ \E known \in BOOLEAN :
         IF known
         THEN c_src' = [c_src EXCEPT ![s] = "listing"] /\ c_sem' = c_sem - 1
         ELSE c_src' = [c_src EXCEPT ![s] = "done"] /\ UNCHANGED c_sem
    /\ UNCHANGED <<c_waiting, c_loading, c_fetched, c_detail_sem, pvars, lvars, avars, mvars, dvars, fvars, nvars, tvars, wvars, kvars, rvars, svars>>

\* the listing page load is over: it raised or failed (the task raises and
\* leaves the semaphore), or it gave n items; with items and a detail schema
\* _enrich_items_with_content starts one _fetch_one task per item and the
\* source task awaits them inside `async with self._semaphore`
CListingDone(s) ==
    /\ c_src[s] = "listing"
    /\ \E n \in 0..MaxItems, ok \in BOOLEAN :
         IF ~ok
         THEN /\ c_src' = [c_src EXCEPT ![s] = "failed"]
              /\ c_sem' = c_sem + 1
              /\ UNCHANGED c_waiting
         ELSE IF n = 0
         THEN /\ c_src' = [c_src EXCEPT ![s] = "done"]
              /\ c_sem' = c_sem + 1
              /\ UNCHANGED c_waiting
         ELSE /\ c_src' = [c_src EXCEPT ![s] = "enrich"]
              /\ c_waiting' = [c_waiting EXCEPT ![s] = n]
              /\ UNCHANGED c_sem
    /\ UNCHANGED <<c_loading, c_fetched, c_detail_sem, pvars, lvars, avars, mvars, dvars, fvars, nvars, tvars, wvars, kvars, rvars, svars>>

\* a _fetch_one task of s enters `async with self._detail_semaphore` and
\* loads the detail page
CAcquireDetail(s) ==
    /\ c_waiting[s] > 0
    /\ c_detail_sem > 0
    /\ c_waiting' = [c_waiting EXCEPT ![s] = @ - 1]
    /\ c_loading' = [c_loading EXCEPT ![s] = @ + 1]
    /\ c_detail_sem' = c_detail_sem - 1
    /\ UNCHANGED <<c_src, c_fetched, c_sem, pvars, lvars, avars, mvars, dvars, fvars, nvars, tvars, wvars, kvars, rvars, svars>>

ReleaseDetailLeaks(sem) == sem

\* leaving `async with self._detail_semaphore`
ReleaseDetail(sem) == sem + 1

\* a detail page load of s is over, with a result, an error or a timeout:
\* the exception is caught inside the `async with`
CDetailDone(s) ==
    /\ c_loading[s] > 0
    /\ c_loading' = [c_loading EXCEPT ![s] = @ - 1]
    /\ c_fetched' = [c_fetched EXCEPT ![s] = @ + 1]
    /\ c_detail_sem' = ReleaseDetail(c_detail_sem)
    /\ UNCHANGED <<c_src, c_waiting, c_sem, pvars, lvars, avars, mvars, dvars, fvars, nvars, tvars, wvars, kvars, rvars, svars>>

\* asyncio.gather over the _fetch_one tasks returned: the source task
\* returns its items and leaves `async with self._semaphore`
CEnrichDone(s) ==
    /\ c_src[s] = "enrich"
    /\ c_waiting[s] = 0
    /\ c_loading[s] = 0
    /\ c_src' = [c_src EXCEPT ![s] = "done"]
    /\ c_sem' = c_sem + 1
    /\ UNCHANGED <<c_waiting, c_loading, c_fetched, c_detail_sem, pvars, lvars, avars, mvars, dvars, fvars, nvars, tvars, wvars, kvars, rvars, svars>>

CNext ==
    \/ \E s \in Sources : CAcquireListing(s)
    \/ \E s \in Sources : CListingDone(s)
    \/ \E s \in Sources : CAcquireDetail(s)
    \/ \E s \in Sources : CDetailDone(s)
    \/ \E s \in Sources : CEnrichDone(s)

(***************************************************************************)
(* task_arxiv and task_rss: saving the day file, then marking the ids      *)
(***************************************************************************)
StoreTasks == {"arxiv", "rss"}

StoreIds(task) == IF task = "arxiv" THEN PaperIds ELSE NewsIds

\* lists of distinct ids, not empty
NewIdLists(ids) ==
    {q \in SeqsUpTo(ids, Cardinality(ids)) : q # << >> /\ Cardinality(Range(q)) = Len(q)}

SIdle ==
    /\ s_task = "none"
    /\ s_pc = "off"
    /\ s_new = << >>
    /\ s_before = {}
    /\ s_day = << >>
    /\ s_day_stage = "none"
    /\ s_tracker = {}
    /\ s_tracker_stage = "old"

\* the task has its new items: task_arxiv dropped the papers whose id the
\* tracker holds, task_rss takes what fetch_all returned
SInit ==
    /\ s_task \in StoreTasks
    /\ s_pc = "running"
    /\ s_before \in SUBSET StoreIds(s_task)
    /\ s_new \in NewIdLists(StoreIds(s_task))
    /\ s_task = "arxiv" => Range(s_new) \cap s_before = {}
    /\ s_day = << >>
    /\ s_day_stage = "none"
    /\ s_tracker = s_before
    /\ s_tracker_stage = "old"

SFrame == UNCHANGED <<s_task, s_new, s_before, pvars, lvars, avars, mvars, dvars, fvars, nvars, tvars, wvars, kvars, rvars, cvars>>

\* save_papers_json / save_news_json: open(file_path, "w")
SOpenDay ==
    /\ s_pc = "running"
    /\ s_day_stage = "none"
    /\ s_day_stage' = "open"
    /\ UNCHANGED <<s_pc, s_day, s_tracker, s_tracker_stage>>
    /\ SFrame

\* json.dump writes the next item
SWriteDay ==
    /\ s_pc = "running"
    /\ s_day_stage = "open"
    /\ Len(s_day) < Len(s_new)
    /\ s_day' = Append(s_day, s_new[Len(s_day) + 1])
    /\ UNCHANGED <<s_pc, s_day_stage, s_tracker, s_tracker_stage>>
    /\ SFrame

\* the with block of the save ends
SCloseDay ==
    /\ s_pc = "running"
    /\ s_day_stage = "open"
    /\ Len(s_day) = Len(s_new)
    /\ s_day_stage' = "closed"
    /\ UNCHANGED <<s_pc, s_day, s_tracker, s_tracker_stage>>
    /\ SFrame

CanMarkAtAnyTime(day_stage) == TRUE

\* tracker.mark_papers_processed / mark_news_processed is the statement
\* after the save
CanMark(day_stage) == day_stage = "closed"

\* mark_*_processed sets the ids in memory and save() opens the tracker
\* file with "w"
SOpenTracker ==
    /\ s_pc = "running"
    /\ CanMark(s_day_stage)
    /\ s_tracker_stage = "old"
    /\ s_tracker_stage' = "open"
    /\ UNCHANGED <<s_pc, s_day, s_day_stage, s_tracker>>
    /\ SFrame

\* json.dump wrote the tracker and the with block ends
SCloseTracker ==
    /\ s_pc = "running"
    /\ s_tracker_stage = "open"
    /\ s_tracker_stage' = "closed"
    /\ s_tracker' = s_before \cup Range(s_new)
    /\ UNCHANGED <<s_pc, s_day, s_day_stage>>
    /\ SFrame

\* the task returns
SReturn ==
    /\ s_pc = "running"
    /\ s_day_stage = "closed"
    /\ s_tracker_stage = "closed"
    /\ s_pc' = "returned"
    /\ UNCHANGED <<s_day, s_day_stage, s_tracker, s_tracker_stage>>
    /\ SFrame

\* the process is stopped
SStop ==
    /\ s_pc = "running"
    /\ s_pc' = "stopped"
    /\ UNCHANGED <<s_day, s_day_stage, s_tracker, s_tracker_stage>>
    /\ SFrame

SNext ==
    \/ SOpenDay
    \/ SWriteDay
    \/ SCloseDay
    \/ SOpenTracker
    \/ SCloseTracker
    \/ SReturn
    \/ SStop

(***************************************************************************)
(* Specifications                                                          *)
(***************************************************************************)
Init == PInit /\ LIdle /\ AIdle /\ MIdle /\ DIdle /\ FIdle /\ NIdle /\ TIdle /\ WIdle /\ KIdle /\ RIdle /\ CIdle /\ SIdle

Next == PNext

Spec == Init /\ [][Next]_vars

InitLLM == LInit /\ AIdle /\ MIdle /\ DIdle /\ FIdle /\ NIdle /\ TIdle /\ WIdle /\ KIdle /\ RIdle /\ CIdle /\ SIdle

SpecLLM == InitLLM /\ [][LNext]_vars

PIdle ==
    /\ now = 0
    /\ runs = 0
    /\ papers_file = <<>>
    /\ news_file = <<>>
    /\ processed = [papers |-> EmptyMap, news |-> EmptyMap]
    /\ fetched_ids = [papers |-> {}, news |-> {}]
    /\ analyzed_ids = [papers |-> {}, news |-> {}]
    /\ last = NoEvent

InitArxiv == PIdle /\ LIdle /\ AInit /\ MIdle /\ DIdle /\ FIdle /\ NIdle /\ TIdle /\ WIdle /\ KIdle /\ RIdle /\ CIdle /\ SIdle

SpecArxiv == InitArxiv /\ [][ANext]_vars

InitMain == PIdle /\ LIdle /\ AIdle /\ MInit /\ DIdle /\ FIdle /\ NIdle /\ TIdle /\ WIdle /\ KIdle /\ RIdle /\ CIdle /\ SIdle

SpecMain == InitMain /\ [][MNext]_vars

InitDeep == PIdle /\ LIdle /\ AIdle /\ MIdle /\ DInit /\ FIdle /\ NIdle /\ TIdle /\ WIdle /\ KIdle /\ RIdle /\ CIdle /\ SIdle

SpecDeep == InitDeep /\ [][DNext]_vars

InitFetch == PIdle /\ LIdle /\ AIdle /\ MIdle /\ DIdle /\ FInit /\ NIdle /\ TIdle /\ WIdle /\ KIdle /\ RIdle /\ CIdle /\ SIdle

SpecFetch == InitFetch /\ [][FNext]_vars

InitNews == PIdle /\ LIdle /\ AIdle /\ MIdle /\ DIdle /\ FIdle /\ NInit /\ TIdle /\ WIdle /\ KIdle /\ RIdle /\ CIdle /\ SIdle

SpecNews == InitNews /\ [][NFetchAll]_vars

InitTracker == PIdle /\ LIdle /\ AIdle /\ MIdle /\ DIdle /\ FIdle /\ NIdle /\ TInit /\ WIdle /\ KIdle /\ RIdle /\ CIdle /\ SIdle

SpecTracker == InitTracker /\ [][TNext]_vars

InitSave == PIdle /\ LIdle /\ AIdle /\ MIdle /\ DIdle /\ FIdle /\ NIdle /\ TIdle /\ WInit /\ KIdle /\ RIdle /\ CIdle /\ SIdle

SpecSave == InitSave /\ [][WNext]_vars

InitNotify == PIdle /\ LIdle /\ AIdle /\ MIdle /\ DIdle /\ FIdle /\ NIdle /\ TIdle /\ WIdle /\ KInit /\ RIdle /\ CIdle /\ SIdle

SpecNotify == InitNotify /\ [][KNext]_vars

InitReact == PIdle /\ LIdle /\ AIdle /\ MIdle /\ DIdle /\ FIdle /\ NIdle /\ TIdle /\ WIdle /\ KIdle /\ RInit /\ CIdle /\ SIdle

SpecReact == InitReact /\ [][RTurn]_vars

InitCrawler == PIdle /\ LIdle /\ AIdle /\ MIdle /\ DIdle /\ FIdle /\ NIdle /\ TIdle /\ WIdle /\ KIdle /\ RIdle /\ CInit /\ SIdle

SpecCrawler == InitCrawler /\ [][CNext]_vars

\* every page load finishes and the event loop runs a task that can run
SpecCrawlerFair == SpecCrawler /\ WF_vars(CNext)

InitStore == PIdle /\ LIdle /\ AIdle /\ MIdle /\ DIdle /\ FIdle /\ NIdle /\ TIdle /\ WIdle /\ KIdle /\ RIdle /\ CIdle /\ SInit

SpecStore == InitStore /\ [][SNext]_vars

(***************************************************************************)
(* Properties of the pipeline tasks (specification Spec)                   *)
(***************************************************************************)
IsSuccess(r) == r.analysis_status = "success"

AnalyzeStep == runs' = runs + 1 /\ last'.task = "analyze"

ArxivStep == runs' = runs + 1 /\ last'.task = "arxiv"

RssStep == runs' = runs + 1 /\ last'.task = "rss"

TrackerOf(tr, kind) == IF kind = "paper" THEN GetPaperIds(tr) ELSE GetNewsIds(tr)

\* how often the item (kind, i) was handed to the LLM
TimesSubmitted(sub, kind, i) ==
    Cardinality({k \in 1..Len(sub) : sub[k].kind = kind /\ sub[k].id = i})

\* C2: the analyze task submits an item to the LLM only if its id is not in
\* analyzed_ids; an item whose id is in analyzed_ids is never submitted.
C2_SubmittedOnlyIfNotInAnalyzedIds ==
    last.task = "analyze" =>
        \A k \in 1..Len(last.submitted) :
            last.submitted[k].id \notin TrackerOf(analyzed_ids, last.submitted[k].kind)

\* C3: after any run, a paper id is in analyzed_ids.papers if and only if the
\* papers file holds it with analysis_status = success.
C3_AnalyzedIdsIffSuccessOnDisk ==
    last.task # "none" =>
        \A x \in PaperIds :
            x \in GetPaperIds(analyzed_ids)
            <=> \E k \in 1..Len(papers_file) :
                    papers_file[k].id = x /\ IsSuccess(papers_file[k])

\* C4: when the arxiv or rss task writes a day file that holds a record with
\* analysis_status = success, the record is in the file afterwards with its
\* analysis fields unchanged.
C4_FetchPreservesSuccessRecords ==
    [][ /\ ArxivStep =>
            \A k \in 1..Len(papers_file) :
                IsSuccess(papers_file[k]) => papers_file[k] \in Range(papers_file')
        /\ RssStep =>
            \A k \in 1..Len(news_file) :
                IsSuccess(news_file[k]) => news_file[k] \in Range(news_file')
      ]_vars

\* C5 as stated: a second analyze run right after a first one issues no LLM
\* call and leaves both day files as the first run wrote them.
C5_SecondAnalyzeIssuesNoCall ==
    [][ (last.task = "analyze" /\ AnalyzeStep) =>
            /\ last'.submitted = <<>>
            /\ papers_file' = papers_file
            /\ news_file' = news_file
      ]_vars

AllSuccess == 
    /\ \A k \in 1..Len(papers_file) : IsSuccess(papers_file[k])
    /\ \A k \in 1..Len(news_file) : IsSuccess(news_file[k])

\* C5 amended: if the first analyze run left every item with status success,
\* a second run right after it issues no LLM call and leaves both day files
\* as the first run wrote them.
C5_SecondAnalyzeAfterFullSuccessIsNoop ==
    [][ (last.task = "analyze" /\ AllSuccess /\ AnalyzeStep) =>
            /\ last'.submitted = <<>>
            /\ papers_file' = papers_file
            /\ news_file' = news_file
      ]_vars

C5_Witness ==
    /\ last.task = "analyze"
    /\ last.prev_task = "analyze"
    /\ last.submitted = <<>>
    /\ Len(papers_file) + Len(news_file) > 0
    /\ AllSuccess

\* C6: an analyze run over a day file submits each item stored with a status
\* other than success exactly once and no item stored with status success.
C6_RerunSubmitsExactlyTheNonSuccess ==
    [][ AnalyzeStep =>
            /\ \A k \in 1..Len(papers_file) :
                 TimesSubmitted(last'.submitted, "paper", papers_file[k].id)
                     = IF IsSuccess(papers_file[k]) THEN 0 ELSE 1
            /\ \A k \in 1..Len(news_file) :
                 TimesSubmitted(last'.submitted, "news", news_file[k].id)
                     = IF IsSuccess(news_file[k]) THEN 0 ELSE 1
            /\ \A k \in 1..Len(last'.submitted) :
                 last'.submitted[k].id \in
                     (IF last'.submitted[k].kind = "paper"
                      THEN IdsOf(papers_file) ELSE IdsOf(news_file))
      ]_vars

\* a rerun that kept a success of an earlier run and resubmitted the rest
C6_Witness ==
    /\ last.task = "analyze"
    /\ last.prev_task = "analyze"
    /\ Len(last.submitted) = 1
    /\ \E k \in 1..Len(papers_file) :
         /\ IsSuccess(papers_file[k])
         /\ papers_file[k].light_analysis < runs
         /\ TimesSubmitted(last.submitted, "paper", papers_file[k].id) = 0
    /\ \E k \in 1..Len(papers_file) :
         /\ papers_file[k].light_analysis = runs
         /\ TimesSubmitted(last.submitted, "paper", papers_file[k].id) = 1

\* C7: the second of two back-to-back arxiv runs over an unchanged feed
\* returns no_new_content.
C7_SecondArxivReturnsNoNewContent ==
    [][ (last.task = "arxiv" /\ ArxivStep /\ last'.feed = last.feed) =>
            last'.status = NO_NEW_CONTENT
      ]_vars

\* C8: a news item an rss run has persisted is in the fetched tracker that
\* news ingestion subtracts, and the next rss run over the same feeds does
\* not return it again.
C8_PersistedNewsIsNotReturnedAgain ==
    [][ RssStep =>
            /\ IdsOf(last'.returned) \subseteq GetNewsIds(fetched_ids')
            /\ (last.task = "rss" /\ last'.incoming = last.incoming) =>
                   IdsOf(last'.returned) \cap IdsOf(last.returned) = {}
      ]_vars

\* C9: an rss run writes no item whose id is in fetched_ids.news and writes
\* every other incoming in-window item, each once.
C9_FetchedNewsOmittedOthersWritten ==
    last.task = "rss" =>
        /\ \A i \in GetNewsIds(fetched_ids) :
             i \notin IdsOf(last.returned) /\ i \notin IdsOf(news_file)
        /\ \A i \in last.incoming \ GetNewsIds(fetched_ids) :
             Cardinality({k \in 1..Len(news_file) : news_file[k].id = i}) = 1
        /\ last.returned # <<>> =>
             Len(news_file) = Cardinality(last.incoming \ GetNewsIds(fetched_ids))

C9_Witness ==
    /\ last.task = "rss"
    /\ GetNewsIds(fetched_ids) = {1}
    /\ last.incoming = {1, 2}
    /\ IdsOf(news_file) = {2}
    /\ Len(news_file) = 1

(***************************************************************************)
(* Properties of the fan-out (specification SpecLLM)                       *)
(***************************************************************************)
LlmInFlight == {it \in LItems : l_pc[it] = "calling"}

\* C1: at every instant of light analysis the number of LLM calls in flight,
\* over the paper batch and the news batch together, is at most
\* analysis.max_concurrent.
C1_LlmCallsInFlightBounded == Cardinality(LlmInFlight) <= MaxConcurrent

\* the semaphore is exhausted while another item of the batch waits for it
C1_Witness ==
    /\ Cardinality(LlmInFlight) = MaxConcurrent
    /\ \E it \in LItems : l_pc[it] = "acquire"

(***************************************************************************)
(* Properties of the arXiv client (specification SpecArxiv)                *)
(***************************************************************************)
ArxivInFlight == {c \in Callers : a_pc[c] = "request"}

\* C10: at any instant at most one arXiv API request of the client is in
\* flight, across all categories being fetched.
C10_OneArxivRequestInFlight == Cardinality(ArxivInFlight) <= 1

\* one category has a request in flight while another waits at the gate
C10_Witness ==
    /\ a_mode = "recent"
    /\ \E c, d \in Callers :
         /\ c # d
         /\ a_pc[c] = "request"
         /\ a_page[c] > 0
         /\ a_pc[d] = "acquire"

\* C11 as stated: between the completion of an arXiv request and the start
\* of the next one (a later page, a retry, another category) at least
\* delay_between_requests seconds elapse.
C11_RequestsSpacedByDelay ==
    a_mode = "recent" => (a_gap = NoTime \/ a_gap >= ARXIV_DELAY)

(***************************************************************************)
(* Properties of the deep analysis (specification SpecDeep)                *)
(***************************************************************************)
\* the graph run is over: it reached END or it raised
GraphEnded == d_node \in {"END", "raised"}

WriteIterations == Get(d_state, "write_iterations", 0)

MaxWriteIterationsOf(st) == Get(st, "max_write_iterations", DEFAULT_MAX_WRITE_ITERATIONS)

C13_ResearchIterationsWithinMax ==
    d_node = "END" =>
        Get(d_state, "research_iterations", 0)
            <= Get(d_state, "max_iterations", DEFAULT_MAX_ITERATIONS)

\* C14: if the reviewer calls request_revision at every review and
\* max_write_iterations = 3, the run ends after exactly 3 writer invocations
\* and final_report equals the third draft.
C14_ForcedEndKeepsThirdDraft ==
    (/\ d_pc \in {"exited", "returned"}
     /\ d_node = "END"
     /\ d_always_revision
     /\ MaxWriteIterationsOf(d_state) = 3) =>
        /\ d_writer_calls = 3
        /\ Get(d_state, "final_report", EMPTY_REPORT) = 3
        /\ d_report = 3

\* C15: when an invocation of run_deep_analysis ends, by return or by raise
\* after the current-paper reference was set, the reference has been cleared.
C15_CurrentPaperCleared ==
    (d_entry = "package" /\ d_pc \in {"returned", "raised"} /\ d_was_set) =>
        ~d_current_paper

\* C16: if the arXiv HTML fulltext of the paper cannot be fetched, the
\* deep_analysis command exits with code 3 and writes no .md file.  (The
\* exits 1 and 2 are left aside: they are taken before any fulltext would
\* be fetched, or by an exception of the notifier after the graph.)
C16_NoFulltextExitsThree ==
    (d_entry = "script" /\ d_html = "404" /\ d_pc = "exited" /\ d_exit \notin {1, 2}) =>
        (d_exit = 3 /\ ~d_md_written)

(***************************************************************************)
(* Properties of daily_crawl's main (specification SpecMain)               *)
(***************************************************************************)
IsPrefix(s, t) == Len(s) <= Len(t) /\ \A k \in 1..Len(s) : s[k] = t[k]

\* C17: with --task all the tasks run one after another in the order arxiv,
\* rss, analyze, summary, update-file-list, notify; whatever status arxiv
\* reports, no_new_content included, rss follows it, and a run in which
\* no task raises has run all six.
C17_AllRunsTasksInOrder ==
    m_task = "all" =>
        /\ IsPrefix(m_trace, AllOrder)
        /\ (m_pc \notin {"start", "exited"}) => m_pc = AllOrder[Len(m_trace) + 1]
        /\ (m_pc = "exited" /\ m_trace # <<>> /\ ~m_raised) => m_trace = AllOrder

C17_Witness ==
    /\ m_task = "all"
    /\ m_pc = "exited"
    /\ m_status = NO_NEW_CONTENT
    /\ m_trace = AllOrder
    /\ m_exit = 0

\* C18 as stated: daily_crawl exits with 1 when the configuration is
\* invalid, with 3 when a task fails with a runtime error, with 0 otherwise.
C18_ExitCodes ==
    m_pc = "exited" =>
        m_exit = (IF m_config # "ok" THEN 1 ELSE IF m_raised THEN 3 ELSE 0)

\* C18 amended: daily_crawl exits with 1 when the configuration check, unless
\* skipped, finds the configuration invalid; otherwise with 3 when a task
\* raises, when --task summary produces no report or when --task notify
\* sends nothing; with 0 in every other case.
C18_ExitCodesOfMain ==
    m_pc = "exited" =>
        m_exit = (IF ~m_skip /\ m_config # "ok" THEN 1
                  ELSE IF m_raised THEN 3
                  ELSE IF m_task = "summary" /\ m_result = "none" THEN 3
                  ELSE IF m_task = "notify" /\ m_result = "not_sent" THEN 3
                  ELSE 0)

\* --task all ends with 0 although summary made no report and notify sent
\* nothing, after arxiv found no new content
C18_Witness ==
    /\ m_pc = "exited"
    /\ m_task = "all"
    /\ m_status = NO_NEW_CONTENT
    /\ m_result = "not_sent"
    /\ m_exit = 0

(***************************************************************************)
(* Properties of analyze_one and analyze_batch (specification SpecLLM)     *)
(***************************************************************************)
\* task_analyze returned after submitting items to the analyzers
AnalyzeReturned == l_phase = "returned" /\ last.task = "analyze"

ItemOf(s) == <<s.kind, s.id>>

\* the record of an item in its day file
SavedRecord(s) == CHOOSE r \in Range(FileOf(s.kind)) : r.id = s.id

StatusFor(outcome) == IF outcome = "ok" THEN "success" ELSE "failed"

\* C19: analyze_one never raises: for every item and every outcome of the LLM
\* call it returns, with the semaphore released, an output whose status is
\* success if the call succeeded and failed otherwise, never pending.
C19_AnalyzeOneSettlesEveryItem ==
    AnalyzeReturned =>
        /\ l_sem = MaxConcurrent
        /\ \A k \in 1..Len(last.submitted) :
             LET s == last.submitted[k]
             IN /\ l_pc[ItemOf(s)] = "done"
                /\ \E r \in Range(FileOf(s.kind)) : r.id = s.id
                /\ SavedRecord(s).analysis_status = StatusFor(l_out[ItemOf(s)])
                /\ SavedRecord(s).analysis_status # "pending"

\* one batch in which a call succeeded, one failed on a parse error after its
\* retries and one failed on another exception
C19_Witness ==
    /\ AnalyzeReturned
    /\ \E k \in 1..Len(last.submitted) : l_out[ItemOf(last.submitted[k])] = "ok"
    /\ \E k \in 1..Len(last.submitted) : l_out[ItemOf(last.submitted[k])] = "parse"
    /\ \E k \in 1..Len(last.submitted) : l_out[ItemOf(last.submitted[k])] = "other"

\* the submissions of one kind, in input order
SubmittedOf(kind) == SelectSeq(last.submitted, LAMBDA s : s.kind = kind)

\* the list analyze_batch returned for a kind: the day file is the records
\* that were success already followed by that list
ReturnedOf(kind) ==
    LET f == FileOf(kind)
        n == Len(SubmittedOf(kind))
    IN SubSeq(f, Len(f) - n + 1, Len(f))

\* C20: analyze_batch returns a list as long as its input whose i-th element
\* is the result for the i-th input item, whatever order the LLM calls
\* complete in.
C20_BatchKeepsInputOrder ==
    AnalyzeReturned =>
        \A kind \in {"paper", "news"} :
            /\ Len(FileOf(kind)) >= Len(SubmittedOf(kind))
            /\ Len(ReturnedOf(kind)) = Len(SubmittedOf(kind))
            /\ \A k \in 1..Len(SubmittedOf(kind)) :
                 LET s == SubmittedOf(kind)[k]
                 IN /\ ReturnedOf(kind)[k].id = s.id
                    /\ ReturnedOf(kind)[k].analysis_status = StatusFor(l_out[ItemOf(s)])

\* a batch of two whose second item completed before its first, with
\* different results
C20_Witness ==
    /\ AnalyzeReturned
    /\ \E kind \in {"paper", "news"} :
         /\ Len(SubmittedOf(kind)) >= 2
         /\ l_out[ItemOf(SubmittedOf(kind)[1])] # l_out[ItemOf(SubmittedOf(kind)[2])]
         /\ \E i, j \in 1..Len(l_done) :
              /\ i < j
              /\ l_done[i] = ItemOf(SubmittedOf(kind)[2])
              /\ l_done[j] = ItemOf(SubmittedOf(kind)[1])

(***************************************************************************)
(* Properties of fetch_recent_papers (specification SpecFetch)             *)
(***************************************************************************)
FetchReturned == f_pc = "returned"

Requested(category) == \E c \in 1..Len(FetchCategories) : FetchCategories[c] = category

\* max(published, updated) >= now - hours
InFetchWindow(p) ==
    \/ p.published >= FetchNow - ARXIV_HOURS
    \/ p.updated # NoTime /\ p.updated >= FetchNow - ARXIV_HOURS

\* C21: every paper returned by a recent-papers fetch over window hours has
\* max(published, updated) >= now - hours and a primary_category that is one
\* of the requested categories.
C21_ReturnedPapersInWindowAndRequested ==
    FetchReturned =>
        \A k \in 1..Len(f_result) :
            /\ InFetchWindow(f_result[k])
            /\ Requested(f_result[k].primary_category)

\* a fetch that collected a paper outside the window and a paper of a foreign
\* primary category, and returned a paper that is in the window by its update
C21_Witness ==
    /\ FetchReturned
    /\ \E c \in 1..Len(FetchCategories) : \E k \in 1..Len(f_collected[c]) :
         ~InFetchWindow(f_collected[c][k])
    /\ \E c \in 1..Len(FetchCategories) : \E k \in 1..Len(f_collected[c]) :
         ~Requested(f_collected[c][k].primary_category)
    /\ \E k \in 1..Len(f_result) :
         f_result[k].published < FetchNow - ARXIV_HOURS

\* the oldest item of a page: the one submitted first
OldestOnPage(page) ==
    CHOOSE p \in Range(page) : \A q \in Range(page) : p.published <= q.published

\* the k-th page of a category ends the pagination
LastPageByRule(c, k) ==
    LET page == PageOf(f_feed[c], (k - 1) * PageSize)
    IN \/ Len(page) < PageSize
       \/ LatestTime(OldestOnPage(page)) < FetchNow - ARXIV_HOURS
       \/ k = MaxPages

\* C27: for each category the client requests pages at start = 0,
\* max_results, 2 * max_results, ... one after another, and requests no
\* further page after the first page that has fewer than max_results items,
\* or whose oldest item has max(published, updated) < now - hours, or that is
\* the max_pages-th page. The oldest item of a page is its last one, the feed
\* being sorted by submission date, newest first.
C27_PagesRequestedUntilFirstLastPage ==
    \A c \in 1..Len(FetchCategories) :
        f_outcome[c] \in {"ok", "raised"} =>
            /\ Len(f_requests[c]) >= 1
            /\ \A k \in 1..Len(f_requests[c]) :
                 /\ f_requests[c][k] = (k - 1) * PageSize
                 /\ k < Len(f_requests[c]) => ~LastPageByRule(c, k)
            /\ f_outcome[c] = "ok" => LastPageByRule(c, Len(f_requests[c]))

\* one category stopped at a full first page whose oldest item is outside the
\* window although the API lists more, the other went on to the max_pages-th
\* page
C27_Witness ==
    \E c, d \in 1..Len(FetchCategories) :
        /\ f_outcome[c] = "ok"
        /\ f_requests[c] = <<0>>
        /\ Len(f_feed[c]) > PageSize
        /\ f_outcome[d] = "ok"
        /\ Len(f_requests[d]) = MaxPages
        /\ MaxPages >= 2

InResult(p) == \E k \in 1..Len(f_result) : f_result[k].id = p.id

\* C30: if one category's fetch exhausts its retries, the recent-papers fetch
\* still returns normally and its result contains the in-window papers of
\* every other category that succeeded (those whose primary category is a
\* requested one, the others being dropped from every result).
C30_FailedCategoryLeavesOthers ==
    (/\ f_pc \in {"returned", "raised"}
     /\ \E c \in 1..Len(FetchCategories) : f_outcome[c] = "raised") =>
        /\ f_pc = "returned"
        /\ \A c \in 1..Len(FetchCategories) :
             f_outcome[c] = "ok" =>
                \A k \in 1..Len(f_collected[c]) :
                    (/\ InFetchWindow(f_collected[c][k])
                     /\ Requested(f_collected[c][k].primary_category))
                    => InResult(f_collected[c][k])

\* the first category failed on its second page, the second one succeeded
\* and its in-window paper is returned
C30_Witness ==
    /\ FetchReturned
    /\ f_outcome[1] = "raised"
    /\ Len(f_requests[1]) = 2
    /\ f_outcome[2] = "ok"
    /\ \E k \in 1..Len(f_collected[2]) :
         /\ InFetchWindow(f_collected[2][k])
         /\ Requested(f_collected[2][k].primary_category)
    /\ f_result # <<>>

(***************************************************************************)
(* The retry policy of _fetch_and_parse (specification SpecArxiv)          *)
(***************************************************************************)
Sleeping(c) == a_pc[c] \in {"backoff", "backoff_429"}

\* the sleep of caller c after a failed attempt ends in this step
SleepOver(c) == Sleeping(c) /\ a_pc'[c] # a_pc[c]

\* C28: one arXiv request is attempted at most max_retries times: after a 429
\* response the client sleeps 30 s and retries, after a 5xx response, timeout
\* or transport error it sleeps 2^attempt seconds and retries, and once the
\* attempts are used up it raises instead of returning papers.
C28_RetryPolicy ==
    /\ [](\A c \in Callers : a_attempt[c] + 1 <= ARXIV_MAX_RETRIES)
    /\ [][\A c \in Callers :
            SleepOver(c) =>
                /\ a_slept'[c] = IF a_pc[c] = "backoff_429" THEN ARXIV_429_WAIT
                                 ELSE 2 ^ a_attempt[c]
                /\ IF a_attempt[c] + 1 < ARXIV_MAX_RETRIES
                   THEN a_pc'[c] = "request" /\ a_attempt'[c] = a_attempt[c] + 1
                   ELSE a_pc'[c] = "raised"]_vars

\* the last attempt of a request failed with a 5xx, a timeout or a transport
\* error after an earlier one was answered 429: the request raised
C28_Witness ==
    \E c \in Callers :
        /\ a_pc[c] = "raised"
        /\ a_attempt[c] + 1 = ARXIV_MAX_RETRIES
        /\ a_slept[c] = 2 ^ a_attempt[c]
        /\ \E d \in Callers : a_slept[d] = ARXIV_429_WAIT

(***************************************************************************)
(* Properties of the news ingestion (specification SpecNews)               *)
(***************************************************************************)
\* C22: every item returned by a news ingestion has published >= now - hours,
\* and no two returned items have the same id.
C22_ReturnedNewsInWindowAndDistinct ==
    n_pc = "returned" =>
        /\ \A k \in 1..Len(n_returned) : n_returned[k].published >= 0 - NEWS_HOURS
        /\ \A j, k \in 1..Len(n_returned) :
             n_returned[j].id = n_returned[k].id => j = k

\* the sources delivered one url twice and an item from before the window,
\* and something was returned
C22_Witness ==
    /\ n_pc = "returned"
    /\ \E j, k \in 1..Len(n_all_items) :
         /\ j # k
         /\ n_all_items[j] = n_all_items[k]
         /\ n_all_items[j].published >= 0 - NEWS_HOURS
         /\ n_all_items[j].id \notin GetNewsIds(n_fetched)
    /\ \E k \in 1..Len(n_all_items) : n_all_items[k].published < 0 - NEWS_HOURS
    /\ n_returned # <<>>

(***************************************************************************)
(* Properties of the trackers' cleanup (specification SpecTracker)         *)
(***************************************************************************)
\* the instant a timestamp string was written at
InstantOf(ts) == CHOOSE t \in EntryInstants : IsoFormat(t) = ts

\* instant a is not before instant b
NotBefore(a, b) == a.s > b.s \/ (a.s = b.s /\ a.u >= b.u)

\* the entries of a category first seen at or after now - retention_days
WithinRetention(m) ==
    {i \in DOMAIN m : NotBefore(InstantOf(m[i]), Instant(t_now.s - RETENTION_DAYS * 24, t_now.u))}

\* C23: after cleanup() at time now the tracker holds exactly the entries
\* whose first-seen time t satisfies t >= now - retention_days, and the call
\* returns the number of entries it removed.
C23_CleanupKeepsExactlyRetained ==
    t_pc = "cleaned" =>
        /\ \A c \in TrackerCategories :
             /\ DOMAIN t_data[c] = WithinRetention(t_before[c])
             /\ \A i \in DOMAIN t_data[c] : t_data[c][i] = t_before[c][i]
        /\ t_removed = Cardinality(DOMAIN t_before["papers"] \ DOMAIN t_data["papers"])
                       + Cardinality(DOMAIN t_before["news"] \ DOMAIN t_data["news"])

\* a call whose clock read microseconds: it removed the entry written at the
\* cutoff's second with no microseconds, and kept a later one
C23_Witness ==
    /\ t_pc = "cleaned"
    /\ t_now.u = 1
    /\ \E c \in TrackerCategories, i \in PaperIds \cup NewsIds :
         /\ i \in DOMAIN t_before[c]
         /\ t_before[c][i] = IsoFormat(Instant(0, 0))
         /\ i \notin DOMAIN t_data[c]
    /\ \E c \in TrackerCategories : DOMAIN t_data[c] # {}
    /\ t_removed >= 2

(***************************************************************************)
(* Properties of the file writes (specification SpecSave)                  *)
(***************************************************************************)
\* C24: every write of a tracker file or a per-date JSON file is atomic: if
\* the process stops at any point during the write, the file holds either
\* its complete previous content or the complete new content.
C24_WritesAreAtomic ==
    w_pc = "stopped" => (w_disk = Serialise(w_old) \/ w_disk = Serialise(w_new))

(***************************************************************************)
(* Properties of the notification (specification SpecNotify)               *)
(***************************************************************************)
\* C25: a failed notification (bad HTTP status, API error code, network
\* error or timeout) is logged and reported by a False result; no exception
\* leaves the notifier call or the notify task.
C25_FailedNotificationIsFalseNotRaised ==
    /\ (k_seen # <<>> /\ Range(k_seen) \subseteq NotifyFailures) =>
           /\ ~k_raised
           /\ k_logged
           /\ k_pc = "returned" => k_result = "false"
    /\ (k_pc = "returned" /\ k_seen # <<>>
            /\ Range(k_seen) \subseteq NotifyFailures \cup {"sent"}) =>
           /\ ~k_raised
           /\ k_result = IF "sent" \in Range(k_seen) THEN "true" ELSE "false"

\* every attempt failed, one of them on a timeout, and the task returned False
C25_Witness ==
    /\ k_pc = "returned"
    /\ k_attempt = NotifyMaxRetries
    /\ "timeout" \in Range(k_seen)
    /\ Range(k_seen) \subseteq NotifyFailures
    /\ k_result = "false"

(***************************************************************************)
(* Termination of the deep-analysis graph (specification SpecDeep)         *)
(***************************************************************************)
\* C26: every deep-analysis run reaches END after finitely many node
\* executions, whatever the supervisor and reviewer LLMs answer, in
\* particular even if the supervisor calls conduct_research on every turn:
\* no run uses up the supersteps of the graph with a node still to run.
C26_EveryRunReachesEnd ==
    (d_pc = "graph" /\ d_node \in GraphNodes) => d_steps < RECURSION_LIMIT

(***************************************************************************)
(* Stopping the analyze task (specification SpecLLM)                       *)
(***************************************************************************)
\* the items whose LLM call has succeeded
Succeeded == {it \in LItems : l_pc[it] = "done" /\ l_out[it] = "ok"}

OnDiskAsSuccess(it) ==
    \E r \in Range(FileOf(it[1])) : r.id = it[2] /\ r.analysis_status = "success"

\* C29: if the analyze task is killed after some items' LLM calls have
\* succeeded and before the task ends, those items are already stored on
\* disk with status success.
C29_SucceededItemsOnDiskWhenKilled ==
    l_phase = "killed" => \A it \in Succeeded : OnDiskAsSuccess(it)

(***************************************************************************)
(* Routing after the supervisor and the reviewer (specification SpecDeep)  *)
(***************************************************************************)
\* the step in which supervisor_tools_node runs and its edge is taken
SupervisorToolsStep ==
    d_pc = "graph" /\ d_node = "supervisor_tools" /\ d_steps' = d_steps + 1

\* the supervisor's turn the step works on
SupervisorTurn == Get(d_state, "supervisor_messages", "none")

Calls(message, name) ==
    {k \in 1..Len(ToolCalls(message)) : ToolCalls(message)[k].name = name}

LastCall(message) == ToolCalls(message)[Len(ToolCalls(message))]

\* C31 as stated: after a supervisor turn that calls conduct_research the
\* next node is researcher with current_research_topic set to the given
\* topic, and after a turn that calls research_complete the next node is
\* writer.
C31_SupervisorCallRoutes ==
    [][SupervisorToolsStep =>
         /\ Calls(SupervisorTurn, "conduct_research") # {} =>
              /\ d_node' = "researcher"
              /\ \E k \in Calls(SupervisorTurn, "conduct_research") :
                   d_state'["current_research_topic"] = ToolCalls(SupervisorTurn)[k].topic
         /\ Calls(SupervisorTurn, "research_complete") # {} => d_node' = "writer"]_vars

\* C31: after a supervisor turn whose last tool call is conduct_research the
\* next node is researcher with current_research_topic set to the topic of
\* that call, and after a turn whose last tool call is research_complete the
\* next node is writer.
C31_LastSupervisorCallRoutes ==
    [][SupervisorToolsStep /\ ToolCalls(SupervisorTurn) # << >> =>
         /\ LastCall(SupervisorTurn).name = "conduct_research" =>
              /\ d_node' = "researcher"
              /\ d_state'["current_research_topic"] = LastCall(SupervisorTurn).topic
         /\ LastCall(SupervisorTurn).name = "research_complete" => d_node' = "writer"]_vars

\* a turn with both calls, conduct_research last, was routed to researcher
C31_Witness ==
    /\ d_pc = "graph"
    /\ d_node = "researcher"
    /\ SupervisorTurn = "complete_then_conduct"
    /\ Get(d_state, "current_research_topic", "none") = "topic"

\* the step in which reviewer_node runs and its edge is taken
ReviewerStep == d_pc = "graph" /\ d_node = "reviewer" /\ d_steps' = d_steps + 1

\* C32: whenever the supervisor's turn contains no tool call, the next node
\* is researcher.
C32_NoToolCallRoutesToResearcher ==
    [][SupervisorToolsStep /\ ToolCalls(SupervisorTurn) = << >> =>
         d_node' = "researcher"]_vars

\* a turn without tool calls after a research round (next_action is still
\* "research") was routed to researcher
C32_Witness ==
    /\ d_pc = "graph"
    /\ d_node = "researcher"
    /\ SupervisorTurn = "no_tool_call"
    /\ Get(d_state, "research_iterations", 0) >= 1

\* C33: if the reviewer's turn calls neither approve_report nor
\* request_revision, the draft is approved: final_report is set to the
\* current draft and the run ends.
C33_NeitherCallApproves ==
    [][ReviewerStep /\ d_review' \in {"unknown_tool", "no_tool_call", "error"} =>
         /\ d_state'["final_report"] = Get(d_state, "draft_report", EMPTY_REPORT)
         /\ d_node' = "END"]_vars

(***************************************************************************)
(* The researcher's ReAct loop (specification SpecReact)                   *)
(***************************************************************************)
\* C34: one researcher invocation makes at most 10 LLM turns in its ReAct
\* loop, and the loop ends at the first turn without tool calls, at an LLM
\* error, or after the 10th turn.
C34_ReactLoopBounded ==
    /\ r_turns <= MAX_TOOL_ITERATIONS
    /\ r_pc = "returned" <=>
         \/ r_last \in {"final", "error"}
         \/ r_turns = MAX_TOOL_ITERATIONS

\* the loop ended after ten turns that all called tools
C34_Witness ==
    /\ r_pc = "returned"
    /\ r_turns = MAX_TOOL_ITERATIONS
    /\ r_last = "two_tool_calls"

(***************************************************************************)
(* The crawler's semaphores (specifications SpecCrawler, SpecCrawlerFair)  *)
(***************************************************************************)
\* the page loads in progress: listing pages and detail pages
RECURSIVE Sum(_, _)
Sum(f, n) == IF n = 0 THEN 0 ELSE f[n] + Sum(f, n - 1)

LoadsInProgress ==
    Cardinality({s \in Sources : c_src[s] = "listing"}) + Sum(c_loading, NumSources)

\* C35: at any instant the number of headless-browser page loads in progress
\* in the crawler family, listing pages and detail pages together, is at most
\* crawler_max_concurrent.
C35_PageLoadsBounded == LoadsInProgress <= CrawlerMaxConcurrent

\* the source fetch of s holds a permit of the listing semaphore
HoldsListingPermit(s) == c_src[s] \in {"listing", "enrich"}

\* C36: no crawler task waits for or holds a detail-page semaphore permit
\* while a listing semaphore permit is held for the same source fetch.
C36_NoDetailPermitUnderListingPermit ==
    \A s \in Sources :
      c_waiting[s] + c_loading[s] > 0 => ~HoldsListingPermit(s)

AllSourcesCompleted == \A s \in Sources : c_src[s] \in {"done", "failed"}

\* C37: if every page load finishes, every crawler source fetch eventually
\* completes: the listing and detail semaphores never deadlock or starve a
\* task.
C37_EverySourceFetchCompletes == <>AllSourcesCompleted

\* every source fetch completed after each had waited for the detail pages
\* of all its items
C37_Witness ==
    /\ \A s \in Sources : c_src[s] = "done"
    /\ \A s \in Sources : c_fetched[s] = MaxItems

(***************************************************************************)
(* Marking ids in a tracker (specification SpecTracker)                    *)
(***************************************************************************)
\* C38: mark_papers and mark_news set the timestamp to now for each given id
\* that is absent, and leave unchanged the timestamp of every id already
\* present and every entry not named in the call.
C38_MarkIsFirstSeen ==
    t_pc = "marked" =>
        /\ DOMAIN t_data[t_call.category] = DOMAIN t_before[t_call.category] \cup t_call.ids
        /\ \A i \in t_call.ids \ DOMAIN t_before[t_call.category] :
             t_data[t_call.category][i] = IsoFormat(t_now)
        /\ \A i \in DOMAIN t_before[t_call.category] :
             t_data[t_call.category][i] = t_before[t_call.category][i]
        /\ \A c \in TrackerCategories \ {t_call.category} : t_data[c] = t_before[c]

\* a call that named an id already present with an older timestamp and an
\* absent id, while the other category held entries
C38_Witness ==
    /\ t_pc = "marked"
    /\ \E i \in t_call.ids :
         /\ i \in DOMAIN t_before[t_call.category]
         /\ t_before[t_call.category][i] # IsoFormat(t_now)
    /\ \E i \in t_call.ids : i \notin DOMAIN t_before[t_call.category]
    /\ \E c \in TrackerCategories \ {t_call.category} : DOMAIN t_before[c] # {}

(***************************************************************************)
(* The day files across an analyze run (specification Spec)                *)
(***************************************************************************)
\* the file holds the ids of before, as often as before, and none twice
SameIdsOnce(before, after) ==
    /\ IdsOf(after) = IdsOf(before)
    /\ Len(after) = Len(before)
    /\ Cardinality(IdsOf(after)) = Len(after)

\* C39: the analyze task neither drops nor duplicates items: after it writes
\* a day file, the file holds exactly the ids it held before the task, each
\* exactly once.
C39_AnalyzeKeepsTheIds ==
    [][AnalyzeStep =>
         /\ SameIdsOnce(papers_file, papers_file')
         /\ SameIdsOnce(news_file, news_file')]_vars

\* an analyze run that kept items stored as success and wrote others anew
C39_Witness ==
    /\ last.task = "analyze"
    /\ last.submitted # << >>
    /\ Len(last.submitted) < Len(papers_file) + Len(news_file)
    /\ Len(papers_file) >= 2

(***************************************************************************)
(* Day file before tracker (specification SpecStore)                       *)
(***************************************************************************)
\* the ids a load of processed_ids.json finds: none while the file is
\* half written (the JSON does not parse and load starts empty)
MarkedOnDisk == IF s_tracker_stage = "open" THEN {} ELSE s_tracker

\* the item of the id was written to a day file: by an earlier run, which
\* marked it, or by this one, whose save is over
WrittenToDayFile(i) ==
    \/ i \in s_before
    \/ s_day_stage = "closed" /\ i \in Range(s_day)

\* C40: in the arxiv and rss tasks an id is added to the tracker only after
\* the item carrying it has been written to the day file, so stopping the
\* process at any point never leaves an id marked whose item was not
\* written.
C40_MarkedOnlyAfterWritten == \A i \in MarkedOnDisk : WrittenToDayFile(i)

\* the process was stopped after the tracker was rewritten with new ids
C40_Witness ==
    /\ s_pc = "stopped"
    /\ s_tracker_stage = "closed"
    /\ MarkedOnDisk \ s_before # {}
    /\ Len(s_new) >= 2

====
